---- MODULE Spec2Model ----
(***************************************************************************)
(* Evaluation backend: the evaluator service (process orchestration,       *)
(* status cache and stores, stop requests) and its gRPC client to the      *)
(* DeepEval metrics engine.                                                *)
(*                                                                         *)
(* Granularity: every access to shared state is its own step.  A write to  *)
(* the class-level cache EvaluationHandler.task_statuses happens in the    *)
(* synchronous code of a coroutine; every repository call is awaited, so    *)
(* other coroutines (stop requests, start requests, other evaluation        *)
(* tasks) may run between any two of these steps.  A repository call that  *)
(* can raise does so nondeterministically (ok \in BOOLEAN).                *)
(*                                                                         *)
(* config_ids of one request are pairwise distinct, so the cache key       *)
(* (model_id) and the store position (index) name the same model; models   *)
(* are numbered 1..n here (index + 1 of the source).                       *)
(***************************************************************************)
EXTENDS Integers, Sequences, FiniteSets, TLC

\* ----------------------------------------------------------------- bounds
MaxProc == 2        \* process ids the service can allocate (SpecStart)
MaxModels == 2      \* entries of config_id of the evaluated request (Spec)
MaxRetries == 4     \* largest settings.grpc_max_retries (SpecClient)
MaxItems == 2       \* items of a batch request (SpecEngine)
MaxMetrics == 2     \* metric names of a batch request (SpecEngine)
MaxRetryDelay == 2  \* largest settings.grpc_retry_delay (SpecClient)
MaxCalls == 2       \* calls of calculate_batch_metrics with the same arguments (SpecBatch)
MaxConstructions == 3  \* metric constructor calls of one MetricFactory (SpecFactory)

\* ------------------------------------------------------ program constants
grpc_max_retries == 3   \* Settings.grpc_max_retries
grpc_retry_delay == 1   \* Settings.grpc_retry_delay

Pids == 1..MaxProc
Users == {"u1", "u2"}

VARIABLES
    task_statuses,      \* EvaluationHandler.task_statuses: process_id -> entry
    status_collection,  \* status store: process_id -> status document
    results_collection, \* result store: the keys <<process_id, model_id>> of its records
    metrics_collection, \* metrics store: process ids holding a metrics record
    config_collection,  \* config store: process ids holding a config record
    handler,            \* process_id -> the EvaluationHandler built for it
    task,               \* process_id -> position and locals of background_evaluation
    stop,               \* process_id -> position and locals of a stop request
    start_response,     \* status code of the last evaluate_dataset response
    status_query,       \* position, argument and result of a get_status_details call
    metric_call,        \* deepeval: one BaseMetric.calculate call, its position and result
    engine,             \* deepeval: one CalculateBatchMetrics call of the gRPC server
    batch_calls,        \* process_id -> calculate_batch_metrics invocations so far
    client_call,        \* one calculate_batch_metrics call with its items and metric names
    stream              \* one GET /status stream: position and locals of event_generator

vars == <<task_statuses, status_collection, results_collection, metrics_collection,
          config_collection, handler, task, stop, start_response, status_query,
          metric_call, engine, batch_calls, client_call, stream>>

\* The state of the deepeval service.
deepeval == <<metric_call, engine>>

stores == <<status_collection, results_collection, metrics_collection, config_collection>>

\* ------------------------------------------------------------ repositories

\* StatusRepository.update_status_record: upsert of the whole document by process_id.
update_status_record(coll, pid, status_data) ==
    (pid :> status_data) @@ coll

\* StatusRepository.get_status_document_by_process_id: the document, or None
\* (here <<>>) when there is none or the read fails.
get_status_document_by_process_id(coll, pid, readOk) ==
    IF readOk /\ pid \in DOMAIN coll THEN <<coll[pid]>> ELSE <<>>

\* StatusRepository.check_ongoing_task: a document of the user with
\* overall_status "In Progress"; False when the read fails.
check_ongoing_task(coll, user_id, readOk) ==
    /\ readOk
    /\ \E q \in DOMAIN coll :
          /\ coll[q].user_id = user_id
          /\ coll[q].overall_status = "In Progress"

\* --------------------------------------------------------------- locals

\* evaluation_failed: the indexes of the models whose dataset load or results
\* write raised.
NoTask ==
    [pc |-> "unused", index |-> 0, status |-> "", site |-> "",
     status_record |-> <<>>, overall_status |-> "",
     GRPC_AVAILABLE |-> FALSE, max_retries |-> 0, retry_delay |-> 0,
     attempt |-> 0, attempts_made |-> 0, sleeps |-> <<>>, last_error |-> "",
     metrics_result |-> <<>>, evaluation_failed |-> {}]

NoStop == [pc |-> "idle", status_document |-> <<>>]

NoResponse == 0

\* No get_status_details call in progress and none answered yet.  The returned
\* model_statuses is << >> for None and <<list>> for a list.
\* No calculate call.  outcome is << >> until the awaited library call ended
\* as <<outcome>>, result is << >> until the call returns <<MetricResult>>.
NoCall == [pc |-> "idle", metric |-> "", data |-> << >>, config |-> "", scorer_calls |-> 0,
           outcome |-> << >>, result |-> << >>]

\* No CalculateBatchMetrics call.  available: GRPC_AVAILABLE and
\* CORE_MODULES_AVAILABLE; i, j: the loop positions; calculations: the
\* metric.calculate calls made; metric_results: per item, the success flag of
\* the MetricResult of each metric (FALSE where the except clause ran);
\* metrics_cache: MetricFactory._metrics_cache, metric name -> instance (the
\* instances are numbered in the order of their construction); constructions:
\* the constructor calls made; resolved: << >> or <<the last create_metric
\* call>>, its name and << >> (raised) or <<instance>>;
\* response: << >> or <<BatchMetricsResponse>>.
NoBatch == [pc |-> "idle", available |-> FALSE, evaluation_items |-> << >>, metrics |-> << >>,
            i |-> 0, j |-> 0, item_scores |-> << >>, results |-> << >>,
            calculations |-> 0, metric_results |-> << >>,
            metrics_cache |-> << >>, constructions |-> 0, resolved |-> << >>,
            response |-> << >>]

\* No calculate_batch_metrics call.  request: << >> or <<the
\* BatchMetricsRequest sent>>; result: << >> or <<the dict returned>>;
\* calls: the calls made with these arguments; earlier: the fallback dicts
\* that earlier calls returned.
NoClientCall == [pc |-> "idle", GRPC_AVAILABLE |-> FALSE, evaluation_data |-> << >>,
                 metrics |-> << >>, request |-> << >>, result |-> << >>,
                 calls |-> 0, earlier |-> << >>]

\* No status stream.  event: << >> or <<the last event yielded>>, the
\* model_statuses and overall_status that get_status_details returned, with
\* models << >> (None) for an error event.
NoStream == [pc |-> "closed", process_id |-> 0, event |-> << >>]

NoQuery == [pc |-> "idle", process_id |-> 0, model_statuses |-> << >>, overall_status |-> ""]

\* The service after startup: nothing cached, nothing stored, no request yet.
InitService ==
    /\ task_statuses = << >>
    /\ status_collection = << >>
    /\ results_collection = {}
    /\ metrics_collection = {}
    /\ config_collection = {}
    /\ handler = << >>
    /\ task = [p \in Pids |-> NoTask]
    /\ stop = [p \in Pids |-> NoStop]
    /\ start_response = NoResponse
    /\ status_query = NoQuery
    /\ metric_call = NoCall
    /\ engine = NoBatch
    /\ batch_calls = [p \in Pids |-> 0]
    /\ client_call = NoClientCall
    /\ stream = NoStream

\* One accepted request: EvaluationHandler.__init__ has run for a payload with
\* n config_id entries and background_evaluation(1) is scheduled.
Init ==
    /\ task_statuses = << >>
    /\ status_collection = << >>
    /\ results_collection = {}
    /\ metrics_collection = {}
    /\ config_collection = {}
    /\ \E n \in 0..MaxModels : handler = (1 :> [user_id |-> "u1", n |-> n])
    /\ task = [p \in Pids |-> IF p = 1 THEN [NoTask EXCEPT !.pc = "scheduled"] ELSE NoTask]
    /\ stop = [p \in Pids |-> NoStop]
    /\ start_response = 200
    /\ status_query = NoQuery
    /\ metric_call = NoCall
    /\ engine = NoBatch
    /\ batch_calls = [p \in Pids |-> 0]
    /\ client_call = NoClientCall
    /\ stream = NoStream

\* ------------------------------------------------------ evaluate_dataset

FreePids == {p \in Pids : task[p].pc = "unused"}

\* POST /evaluate after payload validation: the ongoing-task check, then the
\* process id, the handler and the background task.  n is the number of
\* entries of payload config_id.
StartRequest(user_id, n) ==
    \E readOk \in BOOLEAN :
        IF check_ongoing_task(status_collection, user_id, readOk)
        THEN /\ start_response' = 400
             /\ UNCHANGED <<task_statuses, stores, handler, task, stop, status_query,
                            deepeval, batch_calls, client_call, stream>>
        ELSE /\ FreePids # {}
             /\ LET process_id == CHOOSE p \in FreePids : \A q \in FreePids : p <= q
                IN /\ handler' = (process_id :> [user_id |-> user_id, n |-> n]) @@ handler
                   /\ task' = [task EXCEPT ![process_id] = [NoTask EXCEPT !.pc = "scheduled"]]
                   /\ start_response' = 200
             /\ UNCHANGED <<task_statuses, stores, stop, status_query, deepeval, batch_calls, client_call, stream>>

\* -------------------------------------------------- background_evaluation

ModelIds(p) == 1..handler[p].n

\* First statement of background_evaluation: the in-memory entry.
TaskBegin(p) ==
    /\ task[p].pc = "scheduled"
    /\ task_statuses' = (p :> [models |-> [m \in ModelIds(p) |-> "Not Started"],
                               overall_status |-> "In Progress"]) @@ task_statuses
    /\ task' = [task EXCEPT ![p].pc = "store_config"]
    /\ UNCHANGED <<stores, handler, stop, start_response, status_query,
                   deepeval, batch_calls, client_call, stream>>

\* _store_initial_config: insert_config_record, which re-raises a store error.
StoreInitialConfig(p) ==
    /\ task[p].pc = "store_config"
    /\ \E ok \in BOOLEAN :
          IF ok
          THEN /\ config_collection' = config_collection \cup {p}
               /\ task' = [task EXCEPT ![p].pc = "create_status"]
          ELSE /\ config_collection' = config_collection
               /\ task' = [task EXCEPT ![p].pc = "fail_cache"]
    /\ UNCHANGED <<task_statuses, status_collection, results_collection, metrics_collection,
                   handler, stop, start_response, status_query,
                   deepeval, batch_calls, client_call, stream>>

\* The StatusRecord built by _create_initial_status_record.
InitialStatusRecord(p) ==
    [user_id |-> handler[p].user_id,
     models |-> [m \in ModelIds(p) |-> "Not Started"],
     overall_status |-> "In Progress"]

\* Entry of _update_model_status(process_id, index, model_id, status) from call site `site`.
BeginUpdate(t, status, site) ==
    [t EXCEPT !.pc = "ums_cache", !.status = status, !.site = site, !.status_record = <<>>]

\* NextModel with the metrics stage entered after each model instead of after the loop.
NextModelPerModel(p, t) ==
    [t EXCEPT !.pc = "get_results", !.status = "", !.site = "", !.status_record = <<>>]

\* Next iteration of the loop of _process_all_models, or the metrics stage after it.
NextModel(p, t) ==
    IF t.index < handler[p].n
    THEN BeginUpdate([t EXCEPT !.index = @ + 1], "In Progress", "start")
    ELSE [t EXCEPT !.pc = "get_results", !.index = 0, !.status = "", !.site = "",
                   !.status_record = <<>>]

\* _create_initial_status_record, then entry of _process_all_models.
CreateInitialStatusRecord(p) ==
    /\ task[p].pc = "create_status"
    /\ \E ok \in BOOLEAN :
          IF ok
          THEN /\ status_collection' =
                     update_status_record(status_collection, p, InitialStatusRecord(p))
               /\ task' = [task EXCEPT ![p] = NextModel(p, task[p])]
          ELSE /\ status_collection' = status_collection
               /\ task' = [task EXCEPT ![p].pc = "fail_cache"]
    /\ UNCHANGED <<task_statuses, results_collection, metrics_collection, config_collection,
                   handler, stop, start_response, status_query,
                   deepeval, batch_calls, client_call, stream>>

\* Where control goes when _update_model_status returns (raised = FALSE) or
\* raises, by call site:
\*   start    _evaluate_single_model, "In Progress"
\*   complete _evaluate_single_model, "Completed"
\*   inner    _mark_model_failed in the except of _evaluate_single_model, followed by raise
\*   outer    _mark_model_failed in the except of _process_all_models
AfterUpdate(p, t, raised) ==
    CASE t.site = "start" ->
            IF raised THEN BeginUpdate(t, "Failed", "inner")
            ELSE [t EXCEPT !.pc = "evaluate", !.status_record = <<>>]
      [] t.site = "complete" ->
            IF raised THEN BeginUpdate(t, "Failed", "inner") ELSE NextModel(p, t)
      [] t.site = "inner" -> BeginUpdate(t, "Failed", "outer")
      [] t.site = "outer" ->
            IF raised
            THEN [t EXCEPT !.pc = "fail_cache", !.status = "", !.site = "",
                           !.status_record = <<>>]
            ELSE NextModel(p, t)

\* _update_model_status: the in-memory write.
UpdateModelStatusCache(p) ==
    /\ task[p].pc = "ums_cache"
    /\ task_statuses' = [task_statuses EXCEPT ![p].models[task[p].index] = task[p].status]
    /\ task' = [task EXCEPT ![p].pc = "ums_get"]
    /\ UNCHANGED <<stores, handler, stop, start_response, status_query,
                   deepeval, batch_calls, client_call, stream>>

\* _update_model_status: the read of the status document; without a document
\* (or without the index in it) the store is left alone.
UpdateModelStatusGet(p) ==
    /\ task[p].pc = "ums_get"
    /\ \E readOk \in BOOLEAN :
          LET status_record == get_status_document_by_process_id(status_collection, p, readOk)
          IN IF status_record # <<>> /\ task[p].index <= Len(status_record[1].models)
             THEN task' = [task EXCEPT ![p].pc = "ums_write",
                                       ![p].status_record = status_record]
             ELSE task' = [task EXCEPT ![p] = AfterUpdate(p, task[p], FALSE)]
    /\ UNCHANGED <<task_statuses, stores, handler, stop, start_response, status_query,
                   deepeval, batch_calls, client_call, stream>>

\* _update_model_status: the write back of the whole document.
UpdateModelStatusWrite(p) ==
    /\ task[p].pc = "ums_write"
    /\ \E ok \in BOOLEAN :
          IF ok
          THEN /\ status_collection' =
                     update_status_record(status_collection, p,
                        [task[p].status_record[1] EXCEPT !.models[task[p].index] = task[p].status])
               /\ task' = [task EXCEPT ![p] = AfterUpdate(p, task[p], FALSE)]
          ELSE /\ status_collection' = status_collection
               /\ task' = [task EXCEPT ![p] = AfterUpdate(p, task[p], TRUE)]
    /\ UNCHANGED <<task_statuses, results_collection, metrics_collection, config_collection,
                   handler, stop, start_response, status_query,
                   deepeval, batch_calls, client_call, stream>>

\* _evaluate_single_model between the two status updates: _load_and_process_dataset
\* (raises, or returns the list of items) and update_results_record, an upsert
\* by process_id and model_id.
EvaluateSingleModel(p) ==
    /\ task[p].pc = "evaluate"
    /\ \E loaded \in BOOLEAN, ok \in BOOLEAN :
          IF loaded /\ ok
          THEN /\ results_collection' = results_collection \cup {<<p, task[p].index>>}
               /\ task' = [task EXCEPT ![p] = BeginUpdate(task[p], "Completed", "complete")]
          ELSE /\ results_collection' = results_collection
               /\ task' = [task EXCEPT ![p] =
                              BeginUpdate([task[p] EXCEPT !.evaluation_failed =
                                                             @ \cup {task[p].index}],
                                          "Failed", "inner")]
    /\ UNCHANGED <<task_statuses, status_collection, metrics_collection, config_collection,
                   handler, stop, start_response, status_query,
                   deepeval, batch_calls, client_call, stream>>

\* ------------------------------------------- _calculate_metrics_via_grpc

\* Leaving _calculate_metrics_via_grpc (by return, or through its except
\* clause, which only logs): background_evaluation goes on to _finalize_evaluation.
ToFinalize(t) ==
    [t EXCEPT !.pc = "fin_cache", !.GRPC_AVAILABLE = FALSE, !.max_retries = 0,
              !.retry_delay = 0, !.attempt = 0, !.attempts_made = 0, !.sleeps = <<>>,
              !.last_error = "", !.metrics_result = <<>>]

\* MetricsFailed without the except clause: the exception reaches the except
\* clause of background_evaluation.
MetricsFailedRaises(t) ==
    [ToFinalize(t) EXCEPT !.pc = "fail_cache"]

\* The except clause of _calculate_metrics_via_grpc: the exception is logged
\* and the method returns ("Don't fail the whole evaluation if metrics fail").
MetricsFailed(t) == ToFinalize(t)

\* eval_repo.get_results (an empty list when the read fails) and the two early
\* returns; otherwise DeepEvalGRPCClient() is constructed, which reads the
\* module flag GRPC_AVAILABLE and the settings grpc_max_retries and
\* grpc_retry_delay (here their defaults).  has_items: whether the
\* evaluation_data lists of the records read hold any item.
GetResults(p) ==
    /\ task[p].pc = "get_results"
    /\ \E readOk \in BOOLEAN, has_items \in BOOLEAN, available \in BOOLEAN :
          LET all_results == IF readOk
                             THEN {k \in results_collection : k[1] = p}
                             ELSE {}
              all_evaluation_data == all_results # {} /\ has_items
          IN IF all_results = {} \/ ~all_evaluation_data
             THEN task' = [task EXCEPT ![p] = ToFinalize(task[p])]
             ELSE task' = [task EXCEPT ![p].pc = "connect",
                                       ![p].GRPC_AVAILABLE = available,
                                       ![p].max_retries = grpc_max_retries,
                                       ![p].retry_delay = grpc_retry_delay]
    /\ UNCHANGED <<task_statuses, stores, handler, stop, start_response, status_query,
                   deepeval, batch_calls, client_call, stream>>

\* DeepEvalGRPCClient.__aenter__: mock mode without the generated modules;
\* otherwise the channel and _test_connection, whose failure is re-raised.
ClientEnter(p) ==
    /\ task[p].pc = "connect"
    /\ IF ~task[p].GRPC_AVAILABLE
       THEN task' = [task EXCEPT ![p].pc = "batch_call"]
       ELSE \E ready \in BOOLEAN :
               IF ready
               THEN task' = [task EXCEPT ![p].pc = "batch_call"]
               ELSE task' = [task EXCEPT ![p] = MetricsFailed(task[p])]
    /\ UNCHANGED <<task_statuses, stores, handler, stop, start_response, status_query,
                   deepeval, batch_calls, client_call, stream>>

\* What one RPC attempt can end in: a response with success set or cleared
\* (the engine's error response), or an exception: the engine unavailable, the
\* wait_for timeout, or the request rejected as invalid.
RpcOutcomes == {"ok", "error_response", "unavailable", "timeout", "invalid_argument"}
RpcErrors == {"unavailable", "timeout", "invalid_argument"}

\* The except clause of _call_with_retries: which exceptions it handles.
Retried(error) == TRUE

\* The items of an evaluation_data list, as _process_dataset_item builds them:
\* a complete one, and one with a blank model response.
ClientItems ==
    {[question |-> <<"a">>, model_response |-> <<"a", " ", "b", ".">>, context |-> <<"a">>,
      expected_answer |-> <<"a">>],
     [question |-> <<"a", " ", "b", ".">>, model_response |-> <<" ">>, context |-> <<"a">>,
      expected_answer |-> << >>]}

\* common_pb2.EvaluationItem(...) of calculate_batch_metrics: the answer is
\* item.get('model_response', '') or item.get('answer', ''), and the items
\* have no 'answer' key.
evaluation_item(item) ==
    [question |-> item.question,
     answer |-> IF item.model_response # << >> THEN item.model_response ELSE << >>,
     context |-> item.context,
     expected_answer |-> item.expected_answer]

\* batch_items of calculate_batch_metrics: item_id = str(i) of enumerate.
batch_items(evaluation_data) ==
    [i \in DOMAIN evaluation_data |->
        [item_id |-> i - 1, evaluation_data |-> evaluation_item(evaluation_data[i])]]

\* The bounds of the three random.uniform ranges of
\* _mock_batch_metrics_response, by metric name.
mock_score_range(metric) ==
    IF metric \in {"answer_relevancy", "faithfulness", "contextual_relevancy"}
    THEN <<70, 95>>
    ELSE IF metric \in {"bias", "toxicity", "hallucination"}
         THEN <<0, 30>>
         ELSE <<60, 90>>

\* item.get('question', '')[:50] + "...": the texts here are shorter than 50.
question_preview(question) == question \o <<".", ".", ".">>

\* The draws random can make for the items and metric names of a call: for
\* each pair, the lower or the upper end of the range.
MockDraws(evaluation_data, metrics) ==
    [(DOMAIN evaluation_data) \X {metrics[k] : k \in DOMAIN metrics} -> {1, 2}]

\* _mock_batch_metrics_response with item ids counted from one.
mock_batch_metrics_response_from_one(evaluation_data, metrics, error, draw) ==
    [success |-> TRUE,
     results |-> [i \in DOMAIN evaluation_data |->
                    [item_id |-> i,
                     question |-> question_preview(evaluation_data[i].question),
                     metric_scores |->
                        [m \in {metrics[k] : k \in DOMAIN metrics} |->
                            mock_score_range(m)[draw[<<i, m>>]]],
                     success |-> TRUE]],
     total_processed |-> Len(evaluation_data),
     successful_count |-> Len(evaluation_data), failed_count |-> 0,
     summary_stats |-> [mock_mode |-> TRUE, error |-> error]]

\* _mock_batch_metrics_response(evaluation_data, metrics, error); draw: what
\* random.uniform returns for each item and metric name.
mock_batch_metrics_response(evaluation_data, metrics, error, draw) ==
    [success |-> TRUE,
     results |-> [i \in DOMAIN evaluation_data |->
                    [item_id |-> i - 1,
                     question |-> question_preview(evaluation_data[i].question),
                     metric_scores |->
                        [m \in {metrics[k] : k \in DOMAIN metrics} |->
                            mock_score_range(m)[draw[<<i, m>>]]],
                     success |-> TRUE]],
     total_processed |-> Len(evaluation_data),
     successful_count |-> Len(evaluation_data), failed_count |-> 0,
     summary_stats |-> [mock_mode |-> TRUE, error |-> error]]

\* The fallback dict of a task, whose items and metric names are not
\* followed one by one.
task_mock_response(error) == mock_batch_metrics_response(<< >>, << >>, error, << >>)

\* The dict calculate_batch_metrics builds from a response with success set.
engine_batch_metrics_response ==
    [success |-> TRUE, summary_stats |-> [mock_mode |-> FALSE, error |-> "None"]]

\* calculate_batch_metrics returning `result`; the async with block is left.
ReturnMetrics(t, result) ==
    [t EXCEPT !.pc = "store_metrics", !.metrics_result = <<result>>, !.attempt = 0]

\* calculate_batch_metrics up to the call of _call_with_retries.  With
\* max_retries = 0 the loop body never runs, _call_with_retries returns None
\* and reading response.success raises into the fallback.
CalculateBatchMetrics(p) ==
    /\ task[p].pc = "batch_call"
    /\ batch_calls' = [batch_calls EXCEPT ![p] = @ + 1]
    /\ IF ~task[p].GRPC_AVAILABLE
       THEN task' = [task EXCEPT ![p] = ReturnMetrics(task[p], task_mock_response("None"))]
       ELSE IF task[p].max_retries = 0
            THEN task' = [task EXCEPT ![p] =
                            ReturnMetrics(task[p], task_mock_response("no_response"))]
            ELSE task' = [task EXCEPT ![p].pc = "rpc_attempt", ![p].attempt = 0,
                                      ![p].attempts_made = 0, ![p].sleeps = <<>>]
    /\ UNCHANGED <<task_statuses, stores, handler, stop, start_response, status_query,
                   deepeval, client_call, stream>>

\* One iteration of the loop of _call_with_retries, and what
\* calculate_batch_metrics does with a response or with the raised exception.
RpcAttempt(p) ==
    /\ task[p].pc = "rpc_attempt"
    /\ \E outcome \in RpcOutcomes :
          LET t == [task[p] EXCEPT !.attempts_made = @ + 1]
          IN CASE outcome = "ok" ->
                    task' = [task EXCEPT ![p] = ReturnMetrics(t, engine_batch_metrics_response)]
               [] outcome = "error_response" ->
                    task' = [task EXCEPT ![p] =
                               ReturnMetrics(t, task_mock_response("service_error"))]
               [] outcome \in RpcErrors ->
                    IF Retried(outcome) /\ t.attempt # t.max_retries - 1
                    THEN task' = [task EXCEPT ![p] = [t EXCEPT !.pc = "rpc_sleep",
                                                               !.last_error = outcome]]
                    ELSE task' = [task EXCEPT ![p] =
                                    ReturnMetrics(t, task_mock_response(outcome))]
    /\ UNCHANGED <<task_statuses, stores, handler, stop, start_response, status_query,
                   deepeval, batch_calls, client_call, stream>>

\* Backoff with a constant delay.
BackoffConstant(retry_delay, attempt) == retry_delay

\* The delay slept after the failed attempt number `attempt` (zero-based).
Backoff(retry_delay, attempt) == retry_delay * (attempt + 1)

\* The backoff of _call_with_retries: asyncio.sleep, then the next iteration.
RpcSleep(p) ==
    /\ task[p].pc = "rpc_sleep"
    /\ task' = [task EXCEPT ![p].pc = "rpc_attempt",
                            ![p].sleeps = Append(@, Backoff(task[p].retry_delay, task[p].attempt)),
                            ![p].attempt = @ + 1,
                            ![p].last_error = ""]
    /\ UNCHANGED <<task_statuses, stores, handler, stop, start_response, status_query,
                   deepeval, batch_calls, client_call, stream>>

\* The metrics record is stored when metrics_result["success"]; a store error
\* is caught by the except clause of _calculate_metrics_via_grpc.
StoreMetrics(p) ==
    /\ task[p].pc = "store_metrics"
    /\ IF task[p].metrics_result[1].success
       THEN \E ok \in BOOLEAN :
               IF ok
               THEN /\ metrics_collection' = metrics_collection \cup {p}
                    /\ task' = [task EXCEPT ![p] = ToFinalize(task[p])]
               ELSE /\ metrics_collection' = metrics_collection
                    /\ task' = [task EXCEPT ![p] = MetricsFailed(task[p])]
       ELSE /\ metrics_collection' = metrics_collection
            /\ task' = [task EXCEPT ![p] = ToFinalize(task[p])]
    /\ UNCHANGED <<task_statuses, status_collection, results_collection, config_collection,
                   handler, stop, start_response, status_query,
                   deepeval, batch_calls, client_call, stream>>

\* ------------------------------------------------------ _finalize_evaluation

\* FinalStatus with any() in place of all().
FinalStatusAny(models) ==
    IF \E m \in DOMAIN models : models[m] = "Completed" THEN "Completed" ELSE "Failed"

\* overall_status as _finalize_evaluation computes it from the cached model statuses.
FinalStatus(models) ==
    IF \A m \in DOMAIN models : models[m] = "Completed" THEN "Completed" ELSE "Failed"

FinalizeCache(p) ==
    /\ task[p].pc = "fin_cache"
    /\ LET overall_status == FinalStatus(task_statuses[p].models)
       IN /\ task_statuses' = [task_statuses EXCEPT ![p].overall_status = overall_status]
          /\ task' = [task EXCEPT ![p].pc = "fin_get", ![p].overall_status = overall_status]
    /\ UNCHANGED <<stores, handler, stop, start_response, status_query,
                   deepeval, batch_calls, client_call, stream>>

FinalizeGet(p) ==
    /\ task[p].pc = "fin_get"
    /\ \E readOk \in BOOLEAN :
          LET status_record == get_status_document_by_process_id(status_collection, p, readOk)
          IN IF status_record # <<>>
             THEN task' = [task EXCEPT ![p].pc = "fin_write", ![p].status_record = status_record]
             ELSE task' = [task EXCEPT ![p].pc = "returned"]
    /\ UNCHANGED <<task_statuses, stores, handler, stop, start_response, status_query,
                   deepeval, batch_calls, client_call, stream>>

\* The write of the final document; its failure is an exception of
\* background_evaluation's try block.
FinalizeWrite(p) ==
    /\ task[p].pc = "fin_write"
    /\ \E ok \in BOOLEAN :
          IF ok
          THEN /\ status_collection' =
                     update_status_record(status_collection, p,
                        [task[p].status_record[1] EXCEPT
                            !.overall_status = task[p].overall_status])
               /\ task' = [task EXCEPT ![p].pc = "returned", ![p].status_record = <<>>]
          ELSE /\ status_collection' = status_collection
               /\ task' = [task EXCEPT ![p].pc = "fail_cache", ![p].status_record = <<>>]
    /\ UNCHANGED <<task_statuses, results_collection, metrics_collection, config_collection,
                   handler, stop, start_response, status_query,
                   deepeval, batch_calls, client_call, stream>>

\* ------------------------------------------------ _handle_evaluation_failure

HandleFailureCache(p) ==
    /\ task[p].pc = "fail_cache"
    /\ task_statuses' = [task_statuses EXCEPT ![p].overall_status = "Failed"]
    /\ task' = [task EXCEPT ![p].pc = "fail_get"]
    /\ UNCHANGED <<stores, handler, stop, start_response, status_query,
                   deepeval, batch_calls, client_call, stream>>

HandleFailureGet(p) ==
    /\ task[p].pc = "fail_get"
    /\ \E readOk \in BOOLEAN :
          LET status_record == get_status_document_by_process_id(status_collection, p, readOk)
          IN IF status_record # <<>>
             THEN task' = [task EXCEPT ![p].pc = "fail_write", ![p].status_record = status_record]
             ELSE task' = [task EXCEPT ![p].pc = "raised"]
    /\ UNCHANGED <<task_statuses, stores, handler, stop, start_response, status_query,
                   deepeval, batch_calls, client_call, stream>>

\* Written or not, background_evaluation ends by raising.
HandleFailureWrite(p) ==
    /\ task[p].pc = "fail_write"
    /\ \E ok \in BOOLEAN :
          status_collection' =
             IF ok
             THEN update_status_record(status_collection, p,
                     [task[p].status_record[1] EXCEPT !.overall_status = "Failed"])
             ELSE status_collection
    /\ task' = [task EXCEPT ![p].pc = "raised", ![p].status_record = <<>>]
    /\ UNCHANGED <<task_statuses, results_collection, metrics_collection, config_collection,
                   handler, stop, start_response, status_query,
                   deepeval, batch_calls, client_call, stream>>

\* ------------------------------------------------------ stop_evaluation_task

\* POST /stop: the read of the status document.
StopGet(p) ==
    /\ stop[p].pc = "idle"
    /\ \E readOk \in BOOLEAN :
          LET status_document == get_status_document_by_process_id(status_collection, p, readOk)
          IN stop' = [stop EXCEPT ![p] =
                        [pc |-> IF status_document # <<>> THEN "write" ELSE "cache",
                         status_document |-> status_document]]
    /\ UNCHANGED <<task_statuses, stores, handler, task, start_response, status_query,
                   deepeval, batch_calls, client_call, stream>>

\* The write back of the document with overall_status "Stopped"; a store
\* error ends the request with status 500 before the cache is touched.
StopWrite(p) ==
    /\ stop[p].pc = "write"
    /\ \E ok \in BOOLEAN :
          IF ok
          THEN /\ status_collection' =
                     update_status_record(status_collection, p,
                        [stop[p].status_document[1] EXCEPT !.overall_status = "Stopped"])
               /\ stop' = [stop EXCEPT ![p] = [pc |-> "cache", status_document |-> <<>>]]
          ELSE /\ status_collection' = status_collection
               /\ stop' = [stop EXCEPT ![p] = NoStop]
    /\ UNCHANGED <<task_statuses, results_collection, metrics_collection, config_collection,
                   handler, task, start_response, status_query,
                   deepeval, batch_calls, client_call, stream>>

\* The in-memory update, if the process id is in the cache.
StopCache(p) ==
    /\ stop[p].pc = "cache"
    /\ task_statuses' = IF p \in DOMAIN task_statuses
                        THEN [task_statuses EXCEPT ![p].overall_status = "Stopped"]
                        ELSE task_statuses
    /\ stop' = [stop EXCEPT ![p] = NoStop]
    /\ UNCHANGED <<stores, handler, task, start_response, status_query,
                   deepeval, batch_calls, client_call, stream>>

\* ---------------------------------------------------------- specification

TaskStep(p) ==
    \/ TaskBegin(p)
    \/ StoreInitialConfig(p)
    \/ CreateInitialStatusRecord(p)
    \/ UpdateModelStatusCache(p)
    \/ UpdateModelStatusGet(p)
    \/ UpdateModelStatusWrite(p)
    \/ EvaluateSingleModel(p)
    \/ GetResults(p)
    \/ ClientEnter(p)
    \/ CalculateBatchMetrics(p)
    \/ RpcAttempt(p)
    \/ RpcSleep(p)
    \/ StoreMetrics(p)
    \/ FinalizeCache(p)
    \/ FinalizeGet(p)
    \/ FinalizeWrite(p)
    \/ HandleFailureCache(p)
    \/ HandleFailureGet(p)
    \/ HandleFailureWrite(p)

StopStep(p) ==
    \/ StopGet(p)
    \/ StopWrite(p)
    \/ StopCache(p)

\* A stop request that names the process id of an accepted request.
StopRequest(p) ==
    /\ p \in DOMAIN handler
    /\ StopGet(p)

\* One evaluation process and the stop requests for it.
Next ==
    \/ \E p \in Pids : TaskStep(p)
    \/ \E p \in Pids : StopRequest(p) \/ StopWrite(p) \/ StopCache(p)

Spec == Init /\ [][Next]_vars

\* Every awaited call of background_evaluation returns or raises, and the
\* event loop resumes the coroutine: a task that can take a step takes one.
SpecFair == Init /\ [][Next]_vars /\ \A p \in Pids : WF_vars(TaskStep(p))

\* background_evaluation for a payload whose config_id list is empty.
EmptyTaskStep(p) ==
    \/ TaskBegin(p)
    \/ StoreInitialConfig(p)
    \/ CreateInitialStatusRecord(p)
    \/ GetResults(p)
    \/ FinalizeCache(p)
    \/ FinalizeGet(p)
    \/ FinalizeWrite(p)
    \/ HandleFailureCache(p)
    \/ HandleFailureGet(p)
    \/ HandleFailureWrite(p)

\* The service: start requests of several users, the evaluation tasks they
\* schedule, and stop requests for any process id.
NextService ==
    \/ \E user_id \in Users : StartRequest(user_id, 0)
    \/ \E p \in Pids : EmptyTaskStep(p)
    \/ \E p \in Pids : StopStep(p)

SpecStart == InitService /\ [][NextService]_vars

\* The metrics stage of one process, from the construction of its client on,
\* for every setting of grpc_max_retries and grpc_retry_delay: the model has
\* completed, its results are stored, DeepEvalGRPCClient() has been constructed.
InitClient ==
    /\ handler = (1 :> [user_id |-> "u1", n |-> 1])
    /\ task_statuses = (1 :> [models |-> <<"Completed">>, overall_status |-> "In Progress"])
    /\ status_collection = (1 :> [user_id |-> "u1", models |-> <<"Completed">>,
                                  overall_status |-> "In Progress"])
    /\ results_collection = {<<1, 1>>}
    /\ metrics_collection = {}
    /\ config_collection = {1}
    /\ \E available \in BOOLEAN, N \in 0..MaxRetries, delay \in 1..MaxRetryDelay :
          task = [p \in Pids |->
                    IF p = 1
                    THEN [NoTask EXCEPT !.pc = "connect", !.GRPC_AVAILABLE = available,
                                        !.max_retries = N, !.retry_delay = delay]
                    ELSE NoTask]
    /\ stop = [p \in Pids |-> NoStop]
    /\ start_response = 200
    /\ status_query = NoQuery
    /\ metric_call = NoCall
    /\ engine = NoBatch
    /\ batch_calls = [p \in Pids |-> 0]
    /\ client_call = NoClientCall
    /\ stream = NoStream

MetricsStep(p) ==
    \/ ClientEnter(p)
    \/ CalculateBatchMetrics(p)
    \/ RpcAttempt(p)
    \/ RpcSleep(p)
    \/ StoreMetrics(p)
    \/ FinalizeCache(p)
    \/ FinalizeGet(p)
    \/ FinalizeWrite(p)
    \/ HandleFailureCache(p)
    \/ HandleFailureGet(p)
    \/ HandleFailureWrite(p)

NextClient == \E p \in Pids : MetricsStep(p)

SpecClient == InitClient /\ [][NextClient]_vars

\* ==================================================================== claims

\* ------------------------------------------- deepeval: BaseMetric.calculate

\* The metric classes: those MetricFactory.create_metric builds, and the task
\* specific and custom classes of backends.
FactoryMetrics == {"answer_relevancy", "faithfulness", "contextual_precision",
                   "contextual_recall", "contextual_relevancy", "bias", "toxicity",
                   "hallucination", "summarization", "geval"}
MetricClasses == FactoryMetrics \cup {"classification", "generation", "custom"}

\* Metrics built on DeepEvalMetricWrapper.
WrapperMetrics == FactoryMetrics \ {"geval"}

\* Field values of EvaluationData: strings as sequences of characters.
Texts == {<< >>, <<" ">>, <<"a">>, <<" ", "A", " ">>, <<"a", " ", "b", ".">>}

\* The `criteria` entry of the config dict ("" when absent).
Criteria == {"", "quality", "relevant", "complete"}

\* str.strip(): leading and trailing whitespace removed.
RECURSIVE lstrip(_)
lstrip(text) ==
    IF text # << >> /\ Head(text) = " " THEN lstrip(Tail(text)) ELSE text

RECURSIVE rstrip(_)
rstrip(text) ==
    IF text # << >> /\ text[Len(text)] = " "
    THEN rstrip(SubSeq(text, 1, Len(text) - 1))
    ELSE text

\* strip that removes nothing.
strip_nothing(text) == text

strip(text) == rstrip(lstrip(text))

\* str.lower().
lower(text) == [i \in DOMAIN text |-> IF text[i] = "A" THEN "a" ELSE text[i]]

\* str.split(): the whitespace-separated words.
RECURSIVE split(_)
split(text) ==
    LET t == lstrip(text)
        word_end == IF \E i \in DOMAIN t : t[i] = " "
                    THEN (CHOOSE i \in DOMAIN t :
                             t[i] = " " /\ \A k \in 1..(i - 1) : t[k] # " ") - 1
                    ELSE Len(t)
    IN IF t = << >>
       THEN << >>
       ELSE <<SubSeq(t, 1, word_end)>> \o split(SubSeq(t, word_end + 1, Len(t)))

\* BaseMetric._validate_input: the message of the ValueError raised, "" when none.
base_validate_input(data) ==
    IF strip(data.question) = << >> THEN "Question cannot be empty"
    ELSE IF strip(data.answer) = << >> THEN "Answer cannot be empty"
    ELSE ""

\* The checks a metric class adds after super()._validate_input(data).
class_validate_input(metric, data) ==
    LET no_context == strip(data.context) = << >>
        no_answer == strip(data.answer) = << >>
        no_question == strip(data.question) = << >>
        no_expected == strip(data.expected_answer) = << >>
    IN CASE metric = "answer_relevancy" ->
               IF no_question THEN "Question is required for answer relevancy metric"
               ELSE IF no_answer THEN "Answer is required for answer relevancy metric"
               ELSE ""
         [] metric = "faithfulness" ->
               IF no_context THEN "Context is required for faithfulness metric"
               ELSE IF no_answer THEN "Answer is required for faithfulness metric"
               ELSE ""
         [] metric = "contextual_precision" ->
               IF no_context THEN "Context is required for contextual precision metric"
               ELSE IF no_expected
                    THEN "Expected answer is required for contextual precision metric"
               ELSE ""
         [] metric = "contextual_recall" ->
               IF no_context THEN "Context is required for contextual recall metric"
               ELSE IF no_expected
                    THEN "Expected answer is required for contextual recall metric"
               ELSE ""
         [] metric = "contextual_relevancy" ->
               IF no_context THEN "Context is required for contextual relevancy metric"
               ELSE ""
         [] metric = "bias" ->
               IF no_answer THEN "Answer is required for bias detection" ELSE ""
         [] metric = "toxicity" ->
               IF no_answer THEN "Answer is required for toxicity detection" ELSE ""
         [] metric = "hallucination" ->
               IF no_answer THEN "Answer is required for hallucination detection"
               ELSE IF no_context THEN "Context is required for hallucination detection"
               ELSE ""
         [] metric = "summarization" ->
               IF no_context
               THEN "Original text (context) is required for summarization evaluation"
               ELSE IF no_answer
                    THEN "Summary (answer) is required for summarization evaluation"
               ELSE ""
         [] metric = "classification" ->
               IF no_answer THEN "Predicted label (answer) is required for classification"
               ELSE IF no_expected
                    THEN "Actual label (expected_answer) is required for classification"
               ELSE ""
         [] metric = "generation" ->
               IF no_answer
               THEN "Generated text (answer) is required for generation quality evaluation"
               ELSE ""
         [] metric = "geval" ->
               IF no_answer THEN "Answer is required for GEval metric" ELSE ""
         [] metric = "custom" ->
               IF no_answer THEN "Answer is required for custom metric" ELSE ""

\* self._validate_input(data) of the metric's class.
validate_input(metric, data) ==
    IF base_validate_input(data) # ""
    THEN base_validate_input(data)
    ELSE class_validate_input(metric, data)

\* self.timeout_seconds as the metric's __init__ sets it.
timeout_seconds(metric) ==
    CASE metric \in {"faithfulness", "bias", "custom"} -> 120
      [] metric \in {"answer_relevancy", "contextual_relevancy", "toxicity"} -> 90
      [] metric \in {"contextual_precision", "contextual_recall"} -> 100
      [] metric \in {"hallucination", "summarization"} -> 150
      [] metric = "classification" -> 30
      [] metric = "generation" -> 60
      [] metric = "geval" -> 180

\* Scores are hundredths: 100 is the float 1.0; quotients are truncated.
\* What the DeepEval library's a_measure can leave in `score`.
RawScores == {-50, 0, 50, 100, 150}

\* How the awaited library call ends: a score, an exception, or not within
\* the timeout of asyncio.wait_for.
LibraryOutcomes ==
    [kind : {"score"}, value : RawScores] \cup [kind : {"raise", "timeout"}, value : {0}]

\* The classes that await the library; the others compute their score locally
\* without awaiting (outcome "none").
LibraryOutcomesOf(metric) ==
    IF metric \in WrapperMetrics \cup {"geval"}
    THEN LibraryOutcomes
    ELSE {[kind |-> "none", value |-> 0]}

Min(a, b) == IF a < b THEN a ELSE b
Max(a, b) == IF a > b THEN a ELSE b

\* normalized_score without the clamp.
unnormalized_score(score) == score

\* normalized_score = max(0.0, min(1.0, score)).
normalized_score(score) == Max(0, Min(100, score))

\* set(text.lower().split()).
word_set(text) == {split(lower(text))[i] : i \in DOMAIN split(lower(text))}

\* min(1.0, overlap / len(words) * factor) if len(words) > 0 else 0.5.
overlap_score(words, other, factor) ==
    IF Cardinality(words) > 0
    THEN Min(100, (Cardinality(words \cap other) * factor * 100) \div Cardinality(words))
    ELSE 50

\* GenerationMetric._calculate_fluency.
calculate_fluency(text) ==
    LET words == Len(split(text))
        sentences == Cardinality({i \in DOMAIN text : text[i] = "."}) + 1
    IN IF 10 * sentences <= words /\ words <= 25 * sentences THEN 100
       ELSE IF \/ 5 * sentences <= words /\ words < 10 * sentences
               \/ 25 * sentences < words /\ words <= 35 * sentences THEN 70
       ELSE 40

\* GenerationMetric._calculate_coherence.
calculate_coherence(text) ==
    LET words == Len(split(text))
        unique_words == Cardinality({split(text)[i] : i \in DOMAIN split(text)})
    IN IF unique_words = 0 \/ 2 * words <= 3 * unique_words THEN 100
       ELSE IF words <= 2 * unique_words THEN 70
       ELSE 40

\* GenerationMetric._calculate_metric with the default aspects: the average
\* of fluency, coherence and, for a non-empty prompt, relevance.
generation_score(data) ==
    LET generated_text == strip(data.answer)
        prompt == strip(data.question)
        fluency == calculate_fluency(generated_text)
        coherence == calculate_coherence(generated_text)
        relevance == overlap_score(word_set(prompt), word_set(generated_text), 2)
    IN IF prompt # << >>
       THEN (fluency + coherence + relevance) \div 3
       ELSE (fluency + coherence) \div 2

\* ClassificationMetric._calculate_metric.
classification_score(data) ==
    IF lower(strip(data.answer)) = lower(strip(data.expected_answer)) THEN 100 ELSE 0

\* str.endswith(('.', '!', '?')).
ends_sentence(text) == text # << >> /\ text[Len(text)] \in {".", "!", "?"}

\* GEvalMetric._fallback_geval.
fallback_geval(data, criteria) ==
    CASE criteria = "quality" ->
            IF Len(strip(data.answer)) > 50 /\ ends_sentence(strip(data.answer))
            THEN 80 ELSE 60
      [] criteria = "relevant" ->
            IF data.question # << >> /\ data.answer # << >>
            THEN overlap_score(word_set(data.question), word_set(data.answer), 2)
            ELSE 50
      [] criteria = "complete" ->
            IF Len(split(data.answer)) > 100 THEN 90
            ELSE IF Len(split(data.answer)) > 50 THEN 70
            ELSE 50
      [] OTHER -> 50

\* SummarizationMetric._fallback_summarization_evaluation.
fallback_summarization_evaluation(data) ==
    LET original_length == Len(split(data.context))
        summary_length == Len(split(data.answer))
        compression_score ==
            IF original_length = 0 THEN 30
            ELSE IF /\ original_length <= 10 * summary_length
                    /\ 10 * summary_length <= 3 * original_length THEN 100
            ELSE IF \/ /\ original_length <= 20 * summary_length
                       /\ 10 * summary_length < original_length
                    \/ /\ 3 * original_length < 10 * summary_length
                       /\ 2 * summary_length <= original_length THEN 70
            ELSE 30
        overlap == overlap_score(word_set(data.context), word_set(data.answer), 3)
    IN (compression_score * 60 + overlap * 40) \div 100

\* CustomDomainMetric._evaluate_general: the share of the quality indicators.
evaluate_general(data) ==
    LET answer == strip(data.answer)
        cased == {i \in DOMAIN answer : answer[i] \in {"a", "b", "A"}}
        isupper == cased # {} /\ \A i \in cased : answer[i] = "A"
        indicators == <<Len(answer) > 20, ends_sentence(answer),
                        Len(split(answer)) > 5, ~isupper>>
    IN (Cardinality({i \in DOMAIN indicators : indicators[i]}) * 100) \div 4

\* self._calculate_metric(data, config) under asyncio.wait_for: the value
\* returned, or the exception or timeout that ends it.  The wrapper classes
\* await the library and clamp its score; summarization and geval fall back to
\* their heuristics when the library raises; the others compute locally.
calculate_metric(metric, data, criteria, outcome) ==
    CASE metric \in WrapperMetrics \ {"summarization"} ->
            IF outcome.kind = "score"
            THEN [kind |-> "score", value |-> normalized_score(outcome.value)]
            ELSE outcome
      [] metric = "summarization" ->
            IF outcome.kind = "score"
            THEN [kind |-> "score", value |-> normalized_score(outcome.value)]
            ELSE IF outcome.kind = "raise"
                 THEN [kind |-> "score", value |-> fallback_summarization_evaluation(data)]
                 ELSE outcome
      [] metric = "geval" ->
            IF outcome.kind = "score"
            THEN [kind |-> "score", value |-> normalized_score(outcome.value)]
            ELSE IF outcome.kind = "raise"
                 THEN [kind |-> "score", value |-> fallback_geval(data, criteria)]
                 ELSE outcome
      [] metric = "classification" ->
            [kind |-> "score", value |-> classification_score(data)]
      [] metric = "generation" ->
            [kind |-> "score", value |-> generation_score(data)]
      [] metric = "custom" ->
            [kind |-> "score", value |-> normalized_score(evaluate_general(data))]

\* timeout_error_msg with the default timeout of BaseMetric.__init__.
timeout_error_msg_default(metric) ==
    [prefix |-> "Metric calculation timed out after ", seconds |-> <<60>>, suffix |-> "s"]

\* error_msg of the two except clauses of calculate, as the parts of the
\* f-string: the timeout message carries the seconds, the other str(e).
timeout_error_msg(metric) ==
    [prefix |-> "Metric calculation timed out after ",
     seconds |-> <<timeout_seconds(metric)>>, suffix |-> "s"]

failed_error_msg(e) ==
    [prefix |-> "Metric calculation failed: ", seconds |-> << >>, suffix |-> e]

\* self.metric_name.
metric_name(metric) == IF metric = "custom" THEN "custom_custom" ELSE metric

\* FailedResult with the neutral default score.
FailedResultNeutral(metric, error_msg) ==
    [metric_name |-> metric_name(metric), score |-> 50, success |-> FALSE,
     error_message |-> <<error_msg>>, metadata |-> << >>]

\* The MetricResult of the except clauses.
FailedResult(metric, error_msg) ==
    [metric_name |-> metric_name(metric), score |-> 0, success |-> FALSE,
     error_message |-> <<error_msg>>, metadata |-> << >>]

\* self.__class__.__name__.
class_name(metric) ==
    CASE metric = "answer_relevancy" -> "AnswerRelevancyMetric"
      [] metric = "faithfulness" -> "FaithfulnessMetric"
      [] metric = "contextual_precision" -> "ContextualPrecisionMetric"
      [] metric = "contextual_recall" -> "ContextualRecallMetric"
      [] metric = "contextual_relevancy" -> "ContextualRelevancyMetric"
      [] metric = "bias" -> "BiasMetric"
      [] metric = "toxicity" -> "ToxicityMetric"
      [] metric = "hallucination" -> "HallucinationMetric"
      [] metric = "summarization" -> "SummarizationMetric"
      [] metric = "geval" -> "GEvalMetric"
      [] metric = "classification" -> "ClassificationMetric"
      [] metric = "generation" -> "GenerationMetric"
      [] metric = "custom" -> "CustomDomainMetric"

\* The MetricResult of the try block; metadata is the dict
\* {"calculation_method": class name}.
SuccessResult(metric, score) ==
    [metric_name |-> metric_name(metric), score |-> score, success |-> TRUE,
     error_message |-> << >>,
     metadata |-> [calculation_method |-> class_name(metric)]]

\* Caught with `except ValueError` only.
CaughtValueError(exception) == exception = "ValueError"

\* `except Exception` of calculate: the exception classes it handles.
Caught(exception) == TRUE

\* calculate up to the await: _validate_input, whose ValueError goes to the
\* except clause.
CalculateValidate ==
    /\ metric_call.pc = "validate"
    /\ LET e == validate_input(metric_call.metric, metric_call.data)
       IN IF e = ""
          THEN metric_call' = [metric_call EXCEPT !.pc = "score"]
          ELSE IF Caught("ValueError")
               THEN metric_call' =
                       [metric_call EXCEPT
                           !.pc = "returned",
                           !.result = <<FailedResult(metric_call.metric, failed_error_msg(e))>>]
               ELSE metric_call' = [metric_call EXCEPT !.pc = "raised"]
    /\ UNCHANGED <<task_statuses, stores, handler, task, stop, start_response, status_query,
                   engine, batch_calls, client_call, stream>>

\* The MetricResult calculate builds from the value, the TimeoutError or the
\* exception of asyncio.wait_for(self._calculate_metric(data, config), timeout):
\* <<MetricResult>>, or << >> when the exception leaves calculate.
ScoreResult(metric, data, criteria, outcome) ==
    LET score == calculate_metric(metric, data, criteria, outcome)
    IN CASE score.kind = "score" -> <<SuccessResult(metric, score.value)>>
         [] score.kind = "timeout" -> <<FailedResult(metric, timeout_error_msg(metric))>>
         [] score.kind = "raise" ->
               IF Caught("Exception")
               THEN <<FailedResult(metric, failed_error_msg("DeepEval metric failed"))>>
               ELSE << >>

\* The await of calculate and its return.
CalculateScore ==
    /\ metric_call.pc = "score"
    /\ \E outcome \in LibraryOutcomesOf(metric_call.metric) :
          LET result == ScoreResult(metric_call.metric, metric_call.data,
                                    metric_call.config, outcome)
              called == [metric_call EXCEPT !.scorer_calls = @ + 1, !.outcome = <<outcome>>]
          IN IF result # << >>
             THEN metric_call' = [called EXCEPT !.pc = "returned", !.result = result]
             ELSE metric_call' = [called EXCEPT !.pc = "raised"]
    /\ UNCHANGED <<task_statuses, stores, handler, task, stop, start_response, status_query,
                   engine, batch_calls, client_call, stream>>

\* metric.calculate(data, config) as one call: the MetricResult it returns.
calculate(metric, data, criteria, outcome) ==
    IF validate_input(metric, data) # ""
    THEN FailedResult(metric, failed_error_msg(validate_input(metric, data)))
    ELSE ScoreResult(metric, data, criteria, outcome)[1]

\* The EvaluationData values.
EvaluationData ==
    [question : Texts, answer : Texts, context : Texts, expected_answer : Texts]

\* One call metric.calculate(data, config) for any metric class and data; only
\* geval reads the criteria of config.
InitMetric ==
    /\ task_statuses = << >>
    /\ status_collection = << >>
    /\ results_collection = {}
    /\ metrics_collection = {}
    /\ config_collection = {}
    /\ handler = << >>
    /\ task = [p \in Pids |-> NoTask]
    /\ stop = [p \in Pids |-> NoStop]
    /\ start_response = NoResponse
    /\ status_query = NoQuery
    /\ engine = NoBatch
    /\ batch_calls = [p \in Pids |-> 0]
    /\ client_call = NoClientCall
    /\ stream = NoStream
    /\ \E metric \in MetricClasses, data \in EvaluationData, criteria \in Criteria :
          /\ metric # "geval" => criteria = ""
          /\ metric_call = [NoCall EXCEPT !.pc = "validate", !.metric = metric,
                                          !.data = data, !.config = criteria]

NextMetric == CalculateValidate \/ CalculateScore

SpecMetric == InitMetric /\ [][NextMetric]_vars

\* ---------------------------------- deepeval: DeepEvalGRPCServer.CalculateBatchMetrics

\* Metric names a request can carry: two the factory knows and one it does not.
RequestMetrics == {"answer_relevancy", "bias", "unknown_metric"}

\* Sequences over S of length at most n.
SeqUpTo(S, n) == UNION {[1..k -> S] : k \in 0..n}

\* The score ranges of the mock responses (random.uniform bounds).
MockLow == {0, 30}
MockHigh == {70, 95}

\* _create_mock_response(request).
create_mock_response(request, low, high) ==
    LET results == [i \in DOMAIN request.evaluation_items |->
                      [item_id |-> i - 1,
                       question |-> <<"Mock question ", i>>,
                       metric_scores |->
                          [m \in {request.metrics[k] : k \in DOMAIN request.metrics} |->
                              IF m \in {"bias", "toxicity", "hallucination"}
                              THEN low ELSE high],
                       success |-> TRUE]]
    IN [success |-> TRUE, results |-> results, total_processed |-> Len(results),
        successful_count |-> Len(results), failed_count |-> 0,
        summary_stats |-> [mock_mode |-> "true"]]

\* _create_error_response(error_message).
create_error_response ==
    [success |-> FALSE, results |-> << >>, total_processed |-> 0,
     successful_count |-> 0, failed_count |-> 1, summary_stats |-> << >>]

\* The response _process_batch_metrics_real builds from its results.
real_response(results) ==
    [success |-> TRUE, results |-> results, total_processed |-> Len(results),
     successful_count |-> Len(results), failed_count |-> 0, summary_stats |-> << >>]

\* CalculateBatchMetrics up to the loop of _process_batch_metrics_real, or the
\* mock response when the generated or core modules are missing.
EngineReceive ==
    /\ engine.pc = "received"
    /\ IF ~engine.available
       THEN \E low \in MockLow, high \in MockHigh :
               engine' = [engine EXCEPT !.pc = "responded",
                                        !.response = <<create_mock_response(engine, low, high)>>]
       ELSE engine' = [engine EXCEPT !.pc = "item", !.i = 1, !.j = 1,
                                        !.metric_results =
                                           [k \in DOMAIN engine.evaluation_items |-> << >>]]
    /\ UNCHANGED <<task_statuses, stores, handler, task, stop, start_response, status_query,
                   metric_call, batch_calls, client_call, stream>>

\* The metric classes whose constructor can raise: DeepEvalMetricWrapper's
\* __init__ instantiates the library class, and the subclasses turn an
\* ImportError into an Exception (SummarizationMetric falls back to
\* BaseMetric.__init__ on ImportError only).
ConstructorCanRaise(name) == name \in WrapperMetrics

\* create_metric with the cache never consulted.
create_metric_uncached(metrics_cache, name, built, instance) ==
    IF name \notin FactoryMetrics \/ ~built
    THEN [metric |-> << >>, metrics_cache |-> metrics_cache,
          constructed |-> name \in FactoryMetrics]
    ELSE [metric |-> <<instance>>,
          metrics_cache |-> (name :> instance) @@ metrics_cache,
          constructed |-> TRUE]

\* MetricFactory.create_metric(metric_name): the cached instance, or a new
\* one that is cached; metric is << >> when it raises (unknown name, or the
\* constructor raised: built = FALSE).  constructed: a constructor was called.
create_metric(metrics_cache, name, built, instance) ==
    IF name \in DOMAIN metrics_cache
    THEN [metric |-> <<metrics_cache[name]>>, metrics_cache |-> metrics_cache,
          constructed |-> FALSE]
    ELSE IF name \notin FactoryMetrics \/ ~built
         THEN [metric |-> << >>, metrics_cache |-> metrics_cache,
               constructed |-> name \in FactoryMetrics]
         ELSE [metric |-> <<instance>>,
               metrics_cache |-> (name :> instance) @@ metrics_cache,
               constructed |-> TRUE]

\* item_scores with the assignment of one metric left out.
set_item_score_dropped(item_scores, name, score) == item_scores

\* item_scores[metric_name] = score.
set_item_score(item_scores, name, score) == (name :> score) @@ item_scores

\* One metric of one item: create_metric and calculate inside the try block
\* whose except clause stores the default score 0.5.
EnginePair ==
    /\ engine.pc = "item"
    /\ engine.i <= Len(engine.evaluation_items)
    /\ engine.j <= Len(engine.metrics)
    /\ LET name == engine.metrics[engine.j]
           item == engine.evaluation_items[engine.i]
           eval_data == [question |-> item.evaluation_data.question,
                         answer |-> item.evaluation_data.answer,
                         context |-> item.evaluation_data.context,
                         expected_answer |-> item.evaluation_data.expected_answer]
       IN \E built \in BOOLEAN :
             /\ ~ConstructorCanRaise(name) => built
             /\ LET created == create_metric(engine.metrics_cache, name, built,
                                             engine.constructions + 1)
                    resolving ==
                       [engine EXCEPT
                           !.j = @ + 1,
                           !.metrics_cache = created.metrics_cache,
                           !.constructions = IF created.constructed THEN @ + 1 ELSE @,
                           !.resolved = <<[name |-> name, metric |-> created.metric]>>]
                IN IF created.metric = << >>
                   THEN engine' = [resolving EXCEPT
                                      !.item_scores = set_item_score(@, name, 50),
                                      !.metric_results[engine.i] = (name :> FALSE) @@ @]
                   ELSE \E outcome \in LibraryOutcomesOf(name) :
                           LET result == calculate(name, eval_data, "", outcome)
                           IN engine' =
                                 [resolving EXCEPT
                                     !.calculations = @ + 1,
                                     !.item_scores = set_item_score(@, name, result.score),
                                     !.metric_results[engine.i] =
                                        (name :> result.success) @@ @]
    /\ UNCHANGED <<task_statuses, stores, handler, task, stop, start_response, status_query,
                   metric_call, batch_calls, client_call, stream>>

\* The BatchItemResult of one item; an exception here (the message classes are
\* the generated ones) reaches the except clause of CalculateBatchMetrics.
EngineItemResult ==
    /\ engine.pc = "item"
    /\ engine.i <= Len(engine.evaluation_items)
    /\ engine.j > Len(engine.metrics)
    /\ \E raised \in BOOLEAN :
          IF raised
          THEN engine' = [engine EXCEPT !.pc = "responded",
                                        !.response = <<create_error_response>>]
          ELSE engine' = [engine EXCEPT
                             !.i = @ + 1, !.j = 1, !.item_scores = << >>,
                             !.results = Append(@, [item_id |-> engine.i - 1,
                                                    question |->
                                                       engine.evaluation_items[engine.i]
                                                          .evaluation_data.question,
                                                    metric_scores |-> engine.item_scores,
                                                    success |-> TRUE])]
    /\ UNCHANGED <<task_statuses, stores, handler, task, stop, start_response, status_query,
                   metric_call, batch_calls, client_call, stream>>

\* The response after the loop.
EngineRespond ==
    /\ engine.pc = "item"
    /\ engine.i > Len(engine.evaluation_items)
    /\ engine' = [engine EXCEPT !.pc = "responded",
                                !.response = <<real_response(engine.results)>>]
    /\ UNCHANGED <<task_statuses, stores, handler, task, stop, start_response, status_query,
                   metric_call, batch_calls, client_call, stream>>

\* One BatchMetricsRequest received by the server.
InitEngine ==
    /\ task_statuses = << >>
    /\ status_collection = << >>
    /\ results_collection = {}
    /\ metrics_collection = {}
    /\ config_collection = {}
    /\ handler = << >>
    /\ task = [p \in Pids |-> NoTask]
    /\ stop = [p \in Pids |-> NoStop]
    /\ start_response = NoResponse
    /\ status_query = NoQuery
    /\ metric_call = NoCall
    /\ batch_calls = [p \in Pids |-> 0]
    /\ client_call = NoClientCall
    /\ stream = NoStream
    /\ \E available \in BOOLEAN, evaluation_data \in SeqUpTo(ClientItems, MaxItems),
          metrics \in SeqUpTo(RequestMetrics, MaxMetrics) :
          engine = [NoBatch EXCEPT !.pc = "received", !.available = available,
                                   !.evaluation_items = batch_items(evaluation_data),
                                   !.metrics = metrics]

NextEngine == EngineReceive \/ EnginePair \/ EngineItemResult \/ EngineRespond

SpecEngine == InitEngine /\ [][NextEngine]_vars

\* ------------------------------------------- deepeval: the metric catalog

\* AvailableMetrics: the four lists and the property all_metrics.
rag_metrics == <<"answer_relevancy", "faithfulness", "contextual_precision",
                 "contextual_recall", "contextual_relevancy">>
safety_ethics == <<"bias", "toxicity", "hallucination">>
task_specific == <<"summarization", "classification", "generation">>
custom_metrics == <<"geval", "custom">>

all_metrics == rag_metrics \o safety_ethics \o task_specific \o custom_metrics

\* MetricFactory.get_available_metrics().all_metrics, as a set of names.
get_available_metrics == {all_metrics[i] : i \in DOMAIN all_metrics}

\* One create_metric(name) call on the factory; a raised exception leaves
\* resolved with metric << >>.
CreateMetric(name) ==
    /\ engine.pc = "factory"
    /\ engine.constructions < MaxConstructions
    /\ \E built \in BOOLEAN :
          /\ ~ConstructorCanRaise(name) => built
          /\ LET created == create_metric(engine.metrics_cache, name, built,
                                          engine.constructions + 1)
             IN engine' = [engine EXCEPT
                              !.metrics_cache = created.metrics_cache,
                              !.constructions = IF created.constructed THEN @ + 1 ELSE @,
                              !.resolved = <<[name |-> name, metric |-> created.metric]>>]
    /\ UNCHANGED <<task_statuses, stores, handler, task, stop, start_response, status_query,
                   metric_call, batch_calls, client_call, stream>>

\* A MetricFactory after __init__.
InitFactory ==
    /\ task_statuses = << >>
    /\ status_collection = << >>
    /\ results_collection = {}
    /\ metrics_collection = {}
    /\ config_collection = {}
    /\ handler = << >>
    /\ task = [p \in Pids |-> NoTask]
    /\ stop = [p \in Pids |-> NoStop]
    /\ start_response = NoResponse
    /\ status_query = NoQuery
    /\ metric_call = NoCall
    /\ batch_calls = [p \in Pids |-> 0]
    /\ client_call = NoClientCall
    /\ stream = NoStream
    /\ engine = [NoBatch EXCEPT !.pc = "factory"]

\* create_metric calls for the names of the catalog and for a name outside it.
NextFactory == \E name \in get_available_metrics \cup {"unknown_metric"} : CreateMetric(name)

SpecFactory == InitFactory /\ [][NextFactory]_vars

\* --------------------- evaluator: calculate_batch_metrics, items and metrics

\* The dict calculate_batch_metrics builds from a response with success set.
batch_metrics_result(response) ==
    [success |-> TRUE,
     results |-> [k \in DOMAIN response.results |->
                    [item_id |-> response.results[k].item_id,
                     question |-> response.results[k].question,
                     metric_scores |-> response.results[k].metric_scores,
                     success |-> response.results[k].success]],
     total_processed |-> response.total_processed,
     successful_count |-> response.successful_count,
     failed_count |-> response.failed_count,
     summary_stats |-> response.summary_stats]

\* The server between two calls: the locals of CalculateBatchMetrics are
\* gone, the module flags and the MetricFactory stay.
EngineIdle ==
    [NoBatch EXCEPT !.available = engine.available,
                    !.metrics_cache = engine.metrics_cache,
                    !.constructions = engine.constructions]

\* calculate_batch_metrics returning `result`.
ReturnBatch(result) == [client_call EXCEPT !.pc = "returned", !.result = <<result>>]

\* The except clause of calculate_batch_metrics: the fallback dict.
ClientFallback(error) ==
    \E draw \in MockDraws(client_call.evaluation_data, client_call.metrics) :
       client_call' = ReturnBatch(mock_batch_metrics_response(
                                     client_call.evaluation_data, client_call.metrics,
                                     error, draw))

\* calculate_batch_metrics up to the RPC: the mock dict without the generated
\* modules, otherwise the request is built and sent.  The server keeps its
\* module flags and its MetricFactory from call to call.
ClientSend ==
    /\ client_call.pc = "start"
    /\ IF ~client_call.GRPC_AVAILABLE
       THEN /\ ClientFallback("None")
            /\ engine' = engine
       ELSE LET request == [evaluation_items |-> batch_items(client_call.evaluation_data),
                            metrics |-> client_call.metrics]
            IN /\ client_call' = [client_call EXCEPT !.pc = "rpc", !.request = <<request>>]
               /\ engine' = [EngineIdle EXCEPT
                                !.pc = "received",
                                !.evaluation_items = request.evaluation_items,
                                !.metrics = request.metrics]
    /\ UNCHANGED <<task_statuses, stores, handler, task, stop, start_response, status_query,
                   metric_call, batch_calls, stream>>

\* _call_with_retries raised after its last attempt: the engine was not
\* reached.
ClientRpcFailed ==
    /\ client_call.pc = "rpc"
    /\ engine.pc = "received"
    /\ ClientFallback("unavailable")
    /\ engine' = EngineIdle
    /\ UNCHANGED <<task_statuses, stores, handler, task, stop, start_response, status_query,
                   metric_call, batch_calls, stream>>

\* The response arrived: an error response raises into the fallback, a
\* response with success set is converted.
ClientReceive ==
    /\ client_call.pc = "rpc"
    /\ engine.pc = "responded"
    /\ IF ~engine.response[1].success
       THEN ClientFallback("service_error")
       ELSE client_call' = ReturnBatch(batch_metrics_result(engine.response[1]))
    /\ engine' = EngineIdle
    /\ UNCHANGED <<task_statuses, stores, handler, task, stop, start_response, status_query,
                   metric_call, batch_calls, stream>>

\* The dict comes from _mock_batch_metrics_response: its summary_stats has
\* the key "error".
IsFallback(result) == "error" \in DOMAIN result.summary_stats

\* calculate_batch_metrics is called again with the same arguments.
ClientAgain ==
    /\ client_call.pc = "returned"
    /\ client_call.calls < MaxCalls
    /\ client_call' = [client_call EXCEPT
                          !.pc = "start", !.request = << >>, !.result = << >>,
                          !.calls = @ + 1,
                          !.earlier = IF IsFallback(client_call.result[1])
                                      THEN Append(@, client_call.result[1])
                                      ELSE @]
    /\ UNCHANGED <<task_statuses, stores, handler, task, stop, start_response, status_query,
                   metric_call, engine, batch_calls, stream>>

\* One client and one server: calculate_batch_metrics called for any items
\* and metric names, with and without the generated modules on either side.
InitBatch ==
    /\ task_statuses = << >>
    /\ status_collection = << >>
    /\ results_collection = {}
    /\ metrics_collection = {}
    /\ config_collection = {}
    /\ handler = << >>
    /\ task = [p \in Pids |-> NoTask]
    /\ stop = [p \in Pids |-> NoStop]
    /\ start_response = NoResponse
    /\ status_query = NoQuery
    /\ metric_call = NoCall
    /\ batch_calls = [p \in Pids |-> 0]
    /\ stream = NoStream
    /\ \E available \in BOOLEAN : engine = [NoBatch EXCEPT !.available = available]
    /\ \E GRPC_AVAILABLE \in BOOLEAN, evaluation_data \in SeqUpTo(ClientItems, MaxItems),
          metrics \in SeqUpTo(RequestMetrics, MaxMetrics) :
          client_call = [NoClientCall EXCEPT !.pc = "start", !.calls = 1,
                                             !.GRPC_AVAILABLE = GRPC_AVAILABLE,
                                             !.evaluation_data = evaluation_data,
                                             !.metrics = metrics]

NextBatch ==
    \/ ClientSend
    \/ ClientRpcFailed
    \/ EngineReceive
    \/ EnginePair
    \/ EngineItemResult
    \/ EngineRespond
    \/ ClientReceive
    \/ ClientAgain

SpecBatch == InitBatch /\ [][NextBatch]_vars

\* calculate_batch_metrics of a client without the generated modules, called
\* once for any items and metric names.
InitMockMode ==
    /\ InitBatch
    /\ ~client_call.GRPC_AVAILABLE
    /\ ~engine.available

NextMockMode == ClientSend

SpecMockMode == InitMockMode /\ [][NextMockMode]_vars

\* ------------------------------------------------------ get_status_details

\* InMemory with the cache never consulted.
InMemoryNever(process_id) == FALSE

\* The test `process_id in EvaluationHandler.task_statuses`.
InMemory(process_id) == process_id \in DOMAIN task_statuses

\* The list built from the cached models dict.
models_list(models) ==
    [i \in DOMAIN models |-> [model_id |-> i, status |-> models[i]]]

\* status_doc.get("models", []): the ModelStatus entries of a status document.
doc_models(status_doc) ==
    [i \in DOMAIN status_doc.models |-> [config_id |-> i, status |-> status_doc.models[i]]]

\* get_status_details up to its return from the cache, or to the await of
\* the store read.
GetStatusDetails(process_id) ==
    /\ status_query.pc = "idle"
    /\ IF InMemory(process_id)
       THEN status_query' =
               [pc |-> "idle", process_id |-> process_id,
                model_statuses |-> <<models_list(task_statuses[process_id].models)>>,
                overall_status |-> task_statuses[process_id].overall_status]
       ELSE status_query' = [NoQuery EXCEPT !.pc = "read", !.process_id = process_id]
    /\ UNCHANGED <<task_statuses, stores, handler, task, stop, start_response, deepeval,
                   batch_calls, client_call, stream>>

\* The fallback to the status store.
GetStatusDetailsRead ==
    /\ status_query.pc = "read"
    /\ \E readOk \in BOOLEAN :
          LET status_doc == get_status_document_by_process_id(
                                status_collection, status_query.process_id, readOk)
          IN IF status_doc # << >>
             THEN status_query' =
                     [status_query EXCEPT !.pc = "idle",
                                          !.model_statuses = <<doc_models(status_doc[1])>>,
                                          !.overall_status = status_doc[1].overall_status]
             ELSE status_query' =
                     [status_query EXCEPT !.pc = "idle",
                                          !.model_statuses = << >>,
                                          !.overall_status = "Process not found"]
    /\ UNCHANGED <<task_statuses, stores, handler, task, stop, start_response, deepeval,
                   batch_calls, client_call, stream>>

\* The service process is restarted: the class attribute task_statuses and
\* the running tasks and requests are gone, the stores are kept.
Restart ==
    /\ task_statuses' = << >>
    /\ task' = [p \in Pids |-> IF task[p].pc = "unused"
                               THEN task[p]
                               ELSE [NoTask EXCEPT !.pc = "killed"]]
    /\ stop' = [p \in Pids |-> NoStop]
    /\ status_query' = NoQuery
    /\ UNCHANGED <<stores, handler, start_response, deepeval, batch_calls, client_call, stream>>

\* One evaluation, status queries for any process id, and a restart.
NextQuery ==
    \/ \E p \in Pids : TaskStep(p)
    \/ \E process_id \in Pids : GetStatusDetails(process_id)
    \/ GetStatusDetailsRead
    \/ Restart

SpecQuery == Init /\ [][NextQuery]_vars

\* ------------------------------------------------- check_process_status

\* all(model["status"] in ["Completed", "Failed"] for model in model_statuses).
all_tasks_complete(model_statuses) ==
    \A i \in DOMAIN model_statuses : model_statuses[i].status \in {"Completed", "Failed"}

\* GET /status?process_id=...: the StreamingResponse starts event_generator.
StreamOpen(process_id) ==
    /\ stream.pc = "closed"
    /\ stream' = [NoStream EXCEPT !.pc = "loop", !.process_id = process_id]
    /\ UNCHANGED <<task_statuses, stores, handler, task, stop, start_response, status_query,
                   deepeval, batch_calls, client_call>>

\* The rest of an iteration once get_status_details returned: the error event
\* and the sleep when model_statuses is None; otherwise the data event, then
\* the break when every model is Completed or Failed, or the sleep.
yield_event(model_statuses, overall_status) ==
    LET event == [models |-> model_statuses, overall_status |-> overall_status]
    IN [stream EXCEPT
           !.event = <<event>>,
           !.pc = IF model_statuses # << >> /\ all_tasks_complete(model_statuses[1])
                  THEN "ended"
                  ELSE "loop"]

\* Top of the loop: get_status_details, answered from the cache without an
\* await (the iteration then runs to its yield), or suspended at the read of
\* the status store.
StreamIterate ==
    /\ stream.pc = "loop"
    /\ IF InMemory(stream.process_id)
       THEN stream' = yield_event(
                          <<models_list(task_statuses[stream.process_id].models)>>,
                          task_statuses[stream.process_id].overall_status)
       ELSE stream' = [stream EXCEPT !.pc = "read"]
    /\ UNCHANGED <<task_statuses, stores, handler, task, stop, start_response, status_query,
                   deepeval, batch_calls, client_call>>

\* get_status_details: the fallback to the status store, and the rest of
\* the iteration.
StreamRead ==
    /\ stream.pc = "read"
    /\ \E readOk \in BOOLEAN :
          LET status_doc == get_status_document_by_process_id(
                                status_collection, stream.process_id, readOk)
          IN IF status_doc # << >>
             THEN stream' = yield_event(<<doc_models(status_doc[1])>>,
                                        status_doc[1].overall_status)
             ELSE stream' = yield_event(<< >>, "Process not found")
    /\ UNCHANGED <<task_statuses, stores, handler, task, stop, start_response, status_query,
                   deepeval, batch_calls, client_call>>

StreamStep == StreamIterate \/ StreamRead

\* One evaluation, the stop requests for it, and one status stream opened on
\* its process id at any time.
NextStream ==
    \/ \E p \in Pids : TaskStep(p)
    \/ \E p \in Pids : StopRequest(p) \/ StopWrite(p) \/ StopCache(p)
    \/ \E process_id \in DOMAIN handler : StreamOpen(process_id)
    \/ StreamStep

\* The event loop resumes every coroutine that can run: the evaluation task
\* (its awaited calls return or raise) and the generator of the stream (the
\* client keeps reading).
SpecStream ==
    /\ Init
    /\ [][NextStream]_vars
    /\ \A p \in Pids : WF_vars(TaskStep(p))
    /\ WF_vars(StreamStep)


\* What the cache and the status store hold for process p.
CachedModels(p) == IF p \in DOMAIN task_statuses THEN task_statuses[p].models ELSE <<>>
StoredModels(p) == IF p \in DOMAIN status_collection THEN status_collection[p].models ELSE <<>>
CachedOverall(p) ==
    IF p \in DOMAIN task_statuses THEN task_statuses[p].overall_status ELSE "none"
StoredOverall(p) ==
    IF p \in DOMAIN status_collection THEN status_collection[p].overall_status ELSE "none"

Rank(status) ==
    CASE status = "Not Started" -> 0
      [] status = "In Progress" -> 1
      [] status \in {"Completed", "Failed"} -> 2

\* A model status stays, or moves up in Not Started < In Progress < {Completed, Failed}.
Monotonic(old, new) == old = new \/ Rank(old) < Rank(new)

\* C1: in the cache and in the status store, no model's status ever moves
\* backwards, and a Completed or Failed model never changes to another status.
C1_ModelStatusMonotonic ==
    [][\A p \in Pids :
          /\ \A m \in DOMAIN CachedModels(p) :
                Monotonic(CachedModels(p)[m], CachedModels(p)'[m])
          /\ \A m \in DOMAIN StoredModels(p) :
                Monotonic(StoredModels(p)[m], StoredModels(p)'[m])]_vars

Ended(p) == task[p].pc \in {"returned", "raised"}

\* C2: when background_evaluation ends after its model loop attempted a
\* model, every configured model has been attempted and is Completed or Failed.
C2_AllModelsAttempted ==
    \A p \in DOMAIN task_statuses :
        (/\ Ended(p)
         /\ \E m \in DOMAIN CachedModels(p) : CachedModels(p)[m] # "Not Started")
        => \A m \in DOMAIN CachedModels(p) : CachedModels(p)[m] \in {"Completed", "Failed"}

\* The user has a process whose overall_status, cached or stored, is In Progress.
HasInProgress(user_id) ==
    \E q \in DOMAIN handler :
        /\ handler[q].user_id = user_id
        /\ \/ CachedOverall(q) = "In Progress"
           \/ StoredOverall(q) = "In Progress"

\* A start request of the user is accepted in this step.
Accepted(user_id) ==
    \E p \in Pids :
        /\ task[p].pc = "unused"
        /\ task'[p].pc = "scheduled"
        /\ handler'[p].user_id = user_id

\* C3: no start request is accepted for a user who has a process In Progress,
\* and a rejected start request (status 400) changes nothing but the response.
C3_ConflictRejected ==
    [][/\ \A user_id \in Users : HasInProgress(user_id) => ~Accepted(user_id)
       /\ start_response' = 400 =>
             UNCHANGED <<task_statuses, stores, handler, task, stop, batch_calls, client_call, stream>>]_vars

Terminal == {"Completed", "Failed", "Stopped"}

\* C4: an overall_status of Completed, Failed or Stopped, cached or stored,
\* never changes again; so Stopped is entered from a non-terminal status only.
C4_ProcessTerminal ==
    [][\A p \in Pids :
          /\ CachedOverall(p) \in Terminal => CachedOverall(p)' = CachedOverall(p)
          /\ StoredOverall(p) \in Terminal => StoredOverall(p)' = StoredOverall(p)]_vars

\* C5: the step of _finalize_evaluation that sets the cached overall_status
\* sets it to Completed iff every cached model status is Completed, and to
\* Failed if some model is Failed; the step that writes the store writes
\* that same value.
C5_FinalStatus ==
    [][\A p \in Pids :
          /\ (task[p].pc = "fin_cache" /\ task'[p].pc = "fin_get") =>
                /\ CachedOverall(p)' = "Completed" <=>
                      \A m \in DOMAIN CachedModels(p) : CachedModels(p)[m] = "Completed"
                /\ (\E m \in DOMAIN CachedModels(p) : CachedModels(p)[m] = "Failed")
                      => CachedOverall(p)' = "Failed"
                /\ CachedOverall(p)' \in {"Completed", "Failed"}
                /\ task'[p].overall_status = CachedOverall(p)'
          /\ (task[p].pc = "fin_write" /\ task'[p].pc = "returned") =>
                StoredOverall(p)' = task[p].overall_status]_vars

\* C5 witness: a process with two models, one Completed and one Failed, was
\* finalized Failed in the cache and in the store.
C5_Witness ==
    \E p \in DOMAIN handler :
        /\ task[p].pc = "returned"
        /\ CachedModels(p) = <<"Completed", "Failed">>
        /\ CachedOverall(p) = "Failed"
        /\ StoredOverall(p) = "Failed"

\* Positions of background_evaluation inside _calculate_metrics_via_grpc.
MetricsStage == {"get_results", "connect", "batch_call", "rpc_attempt", "rpc_sleep",
                 "store_metrics"}

\* C6: whatever happens in the metrics stage, the task leaves it into
\* _finalize_evaluation only, and the finalization of a process whose metrics
\* were not stored sets the overall_status the cached model statuses determine.
C6_MetricsFailureIsolated ==
    [][\A p \in Pids :
          /\ (task[p].pc \in MetricsStage /\ task'[p] # task[p]) =>
                task'[p].pc \in MetricsStage \cup {"fin_cache"}
          /\ (task[p].pc = "fin_cache" /\ task'[p] # task[p] /\ p \notin metrics_collection) =>
                CachedOverall(p)' =
                   IF \A m \in DOMAIN CachedModels(p) : CachedModels(p)[m] = "Completed"
                   THEN "Completed" ELSE "Failed"]_vars

\* C6 witness: the batch call was made, no metrics record was stored (the
\* store failed), and the process was finalized Completed.
C6_Witness ==
    \E p \in DOMAIN handler :
        /\ task[p].pc = "returned"
        /\ batch_calls[p] = 1
        /\ p \notin metrics_collection
        /\ handler[p].n > 0
        /\ CachedOverall(p) = "Completed"
        /\ StoredOverall(p) = "Completed"

\* Every configured model is Completed or Failed in the cache.
AllModelsDone(p) ==
    /\ p \in DOMAIN task_statuses
    /\ \A m \in DOMAIN CachedModels(p) : CachedModels(p)[m] \in {"Completed", "Failed"}

LinearDelays(retry_delay, k) == [i \in 1..k |-> retry_delay * i]

InClient == {"connect", "batch_call", "rpc_attempt", "rpc_sleep"}

\* C9: the orchestrator's use of the client never ends in an exception: it
\* leaves the client only with a BatchResult with success set, which carries
\* the fallback marker unless the engine answered.
C9_FallbackNeverRaises ==
    [][\A p \in Pids :
          (task[p].pc \in InClient /\ task'[p].pc \notin InClient) =>
             /\ task'[p].pc = "store_metrics"
             /\ task'[p].metrics_result[1].success
             /\ task'[p].metrics_result[1].summary_stats.error # "None"
                   => task'[p].metrics_result[1].summary_stats.mock_mode]_vars

\* C10: an attempt that fails with a validation error is not followed by a
\* backoff sleep, and the error is not replaced by a fallback response.
C10_ValidationNotRetried ==
    \A p \in Pids :
        /\ task[p].pc = "rpc_sleep" => task[p].last_error # "invalid_argument"
        /\ task[p].pc = "store_metrics" =>
              task[p].metrics_result[1].summary_stats.error # "invalid_argument"

\* No status update of the evaluation task and no stop request of the process
\* is part-way through: the task has ended and no stop request is in flight.
Quiescent(p) == Ended(p) /\ stop[p].pc = "idle"

\* C11: when no update of the process is part-way through, the cache entry and
\* the status record of the process agree on overall_status and on every
\* model's status.
C11_CacheStoreAgree ==
    \A p \in DOMAIN task_statuses \cap DOMAIN status_collection :
        Quiescent(p) =>
            /\ CachedOverall(p) = StoredOverall(p)
            /\ CachedModels(p) = StoredModels(p)

\* C12: no step of a stop request changes a model's status in the cache or in
\* the store, and a stop request that returns leaves overall_status Stopped
\* in the cache and in the status record of the process.
C12_StopSetsStopped ==
    [][\A p \in Pids :
          stop'[p] # stop[p] =>
             /\ CachedModels(p)' = CachedModels(p)
             /\ StoredModels(p)' = StoredModels(p)
             /\ (stop[p].pc = "cache" /\ stop'[p].pc = "idle") =>
                   /\ p \in DOMAIN task_statuses => CachedOverall(p)' = "Stopped"
                   /\ p \in DOMAIN status_collection => StoredOverall(p)' = "Stopped"]_vars

\* C13: a status query for a process id present in the cache returns, without
\* reading the store, the model statuses and overall_status the cache holds;
\* the store is read only for an id absent from the cache, and the answer is
\* then the stored document's, or (None, 'Process not found') when the store
\* holds no document of the id; no step of a query changes the cache, the
\* stores or a task.
C13_StatusQuery ==
    [][(status_query' # status_query /\ status_query'.process_id \in Pids) =>
          LET q == status_query'.process_id
          IN /\ UNCHANGED <<task_statuses, stores, handler, task, stop>>
             /\ status_query.pc = "idle" =>
                   IF q \in DOMAIN task_statuses
                   THEN /\ status_query'.pc = "idle"
                        /\ status_query'.model_statuses =
                              <<[i \in DOMAIN CachedModels(q) |->
                                    [model_id |-> i, status |-> CachedModels(q)[i]]]>>
                        /\ status_query'.overall_status = CachedOverall(q)
                   ELSE status_query'.pc = "read"
             /\ status_query.pc = "read" =>
                   /\ status_query'.pc = "idle"
                   /\ q \notin DOMAIN status_collection =>
                         /\ status_query'.model_statuses = << >>
                         /\ status_query'.overall_status = "Process not found"
                   /\ status_query'.model_statuses # << >> =>
                         /\ status_query'.model_statuses =
                               <<[i \in DOMAIN StoredModels(q) |->
                                     [config_id |-> i, status |-> StoredModels(q)[i]]]>>
                         /\ status_query'.overall_status = StoredOverall(q)]_vars

\* C13 witness: after a restart the query for a finished process with two
\* models, absent from the cache, was answered from the status store.
C13_Witness ==
    /\ status_query.pc = "idle"
    /\ status_query.process_id = 1
    /\ 1 \notin DOMAIN task_statuses
    /\ status_query.model_statuses =
          <<[i \in 1..2 |-> [config_id |-> i, status |-> "Completed"]]>>
    /\ status_query.overall_status = "Completed"

\* The MetricResult a calculate call returned, if it has returned.
Returned == metric_call.pc = "returned" /\ metric_call.result # << >>

\* C15: every MetricResult returned with success = false has score 0.0 and an
\* error_message that is set and not empty.
C15_FailedResultShape ==
    (Returned /\ ~metric_call.result[1].success) =>
        /\ metric_call.result[1].score = 0
        /\ metric_call.result[1].error_message # << >>
        /\ metric_call.result[1].error_message[1].prefix # ""

\* C15 witness: a call that timed out returned a failed result.
C15_Witness ==
    /\ Returned
    /\ metric_call.outcome # << >>
    /\ metric_call.outcome[1].kind = "timeout"
    /\ ~metric_call.result[1].success
    /\ metric_call.result[1].score = 0

\* C16: every MetricResult returned with success = true has a score in
\* [0, 1], whatever score the library left.
C16_ScoreClamped ==
    (Returned /\ metric_call.result[1].success) =>
        /\ 0 <= metric_call.result[1].score
        /\ metric_call.result[1].score <= 100

\* C16 witness: the library left the score 1.5 and the call returned 1.0.
C16_Witness ==
    /\ Returned
    /\ metric_call.metric = "bias"
    /\ metric_call.outcome = <<[kind |-> "score", value |-> 150]>>
    /\ metric_call.result[1].success
    /\ metric_call.result[1].score = 100

\* C17: calculate never ends in an exception: each call that ends has
\* returned a MetricResult.
C17_NeverRaises ==
    /\ metric_call.pc # "raised"
    /\ metric_call.pc \in {"idle", "validate", "score", "returned"}
    /\ metric_call.pc = "returned" => metric_call.result # << >>

\* C17 witness: the library raised and the call returned a failed result.
C17_Witness ==
    /\ Returned
    /\ metric_call.outcome # << >>
    /\ metric_call.outcome[1].kind = "raise"
    /\ metric_call.metric = "faithfulness"
    /\ ~metric_call.result[1].success

\* Empty after trimming whitespace.
Blank(text) == \A i \in DOMAIN text : text[i] = " "

\* The fields the claim requires of an item for a metric.
MissingRequired(metric, data) ==
    \/ Blank(data.question)
    \/ Blank(data.answer)
    \/ /\ metric \in {"faithfulness", "hallucination", "summarization",
                      "contextual_precision", "contextual_recall", "contextual_relevancy"}
       /\ Blank(data.context)
    \/ /\ metric \in {"classification", "contextual_precision", "contextual_recall"}
       /\ Blank(data.expected_answer)

\* C18: a call for an item with a required field empty after trimming returns
\* a failed MetricResult with score 0.0 without the scorer having been invoked.
C18_ValidationShortCircuits ==
    (/\ metric_call.pc \notin {"idle", "validate"}
     /\ MissingRequired(metric_call.metric, metric_call.data)) =>
        /\ Returned
        /\ ~metric_call.result[1].success
        /\ metric_call.result[1].score = 0
        /\ metric_call.scorer_calls = 0
        /\ metric_call.outcome = << >>

\* C18 witness: faithfulness for an item whose context is a single blank
\* returned the validation failure.
C18_Witness ==
    /\ Returned
    /\ metric_call.metric = "faithfulness"
    /\ metric_call.data.context = <<" ">>
    /\ ~Blank(metric_call.data.question)
    /\ ~Blank(metric_call.data.answer)
    /\ ~metric_call.result[1].success
    /\ metric_call.scorer_calls = 0

\* C19: the scorer is invoked at most once per call, and a call whose scorer
\* did not finish within the timeout returns a failed MetricResult whose
\* error_message carries the metric's timeout in seconds.
C19_TimeoutReported ==
    /\ metric_call.scorer_calls <= 1
    /\ (/\ metric_call.outcome # << >>
        /\ metric_call.outcome[1].kind = "timeout") =>
            /\ Returned
            /\ ~metric_call.result[1].success
            /\ metric_call.result[1].error_message[1].prefix =
                  "Metric calculation timed out after "
            /\ metric_call.result[1].error_message[1].seconds =
                  <<timeout_seconds(metric_call.metric)>>

\* C19 witness: hallucination timed out and the message carries 150 seconds.
C19_Witness ==
    /\ Returned
    /\ metric_call.metric = "hallucination"
    /\ metric_call.scorer_calls = 1
    /\ metric_call.outcome[1].kind = "timeout"
    /\ metric_call.result[1].error_message[1].seconds = <<150>>

\* C14: every batch response satisfies
\* successful_count + failed_count = total_processed = number of request items.
C14_BatchCounts ==
    engine.response # << >> =>
        /\ engine.response[1].successful_count + engine.response[1].failed_count
              = engine.response[1].total_processed
        /\ engine.response[1].total_processed = Len(engine.evaluation_items)

\* The request names a metric the factory does not know.
NamesUnknownMetric ==
    \E k \in DOMAIN engine.metrics : engine.metrics[k] \notin FactoryMetrics

\* C20: for a request that names an unknown metric no (item, metric)
\* calculation is made and no item is scored: the response is a failure
\* without item results.
C20_UnknownMetricRejected ==
    NamesUnknownMetric =>
        /\ engine.calculations = 0
        /\ engine.results = << >>
        /\ engine.response # << >> =>
              /\ ~engine.response[1].success
              /\ engine.response[1].results = << >>

\* At least one requested metric of the k-th item came back successful.
SomeMetricSucceeded(k) ==
    \E m \in DOMAIN engine.metric_results[k] : engine.metric_results[k][m]

\* C21: in the batch result of the engine's loop an item's success flag is
\* true exactly when at least one requested metric came back successful for
\* it, and failed_count counts the items none succeeded for (requests that
\* name at least one metric).
C21_ItemSuccess ==
    engine.metrics # << >> =>
    /\ \A k \in DOMAIN engine.results :
          engine.results[k].success <=> SomeMetricSucceeded(k)
    /\ (engine.response # << >> /\ engine.response[1].success
           /\ engine.response[1].summary_stats = << >>) =>
          engine.response[1].failed_count =
             Cardinality({k \in DOMAIN engine.results : ~SomeMetricSucceeded(k)})

\* The metric names of the request.
RequestedMetrics == {engine.metrics[k] : k \in DOMAIN engine.metrics}

\* The loop of the engine is at the pair (i, j).
AtPair == engine.pc = "item" /\ engine.i <= Len(engine.evaluation_items)
             /\ engine.j <= Len(engine.metrics)

\* C22: in the engine's loop every (item, metric) pair gets an entry in the
\* item's metric_scores whether it failed or not, the step of a pair always
\* leaves the loop running at the next pair without a response, and the
\* response built after the last item has success = true and one result per
\* item.
C22_PairIsolation ==
    /\ [](/\ \A k \in DOMAIN engine.results :
               DOMAIN engine.results[k].metric_scores = RequestedMetrics
          /\ (engine.available /\ engine.response # << >>
                 /\ Len(engine.results) = Len(engine.evaluation_items)) =>
                /\ engine.response[1].success
                /\ engine.response[1].results = engine.results)
    /\ [][AtPair =>
            /\ engine'.pc = "item"
            /\ engine'.response = << >>
            /\ engine'.i = engine.i /\ engine'.j = engine.j + 1
            /\ engine.metrics[engine.j] \in DOMAIN engine'.item_scores]_vars

\* C22 witness: a response with success = true for two items and two metrics
\* where the first pair failed and all four pairs have entries.
C22_Witness ==
    /\ engine.response # << >> /\ engine.response[1].success
    /\ Len(engine.results) = 2 /\ Cardinality(RequestedMetrics) = 2
    /\ ~engine.metric_results[1][engine.metrics[1]]
    /\ \A k \in 1..2 : DOMAIN engine.response[1].results[k].metric_scores = RequestedMetrics

\* The metric classes with a heuristic fallback in _calculate_metric.
FallbackMetrics == {"summarization", "geval"}

\* The heuristic score of a fallback metric for the data of the call.
HeuristicScore ==
    IF metric_call.metric = "summarization"
    THEN fallback_summarization_evaluation(metric_call.data)
    ELSE fallback_geval(metric_call.data, metric_call.config)

\* The external scorer of a fallback metric raised and calculate returned.
FallbackScored ==
    /\ Returned
    /\ metric_call.metric \in FallbackMetrics
    /\ metric_call.scorer_calls = 1
    /\ metric_call.outcome[1].kind = "raise"

\* C25: when the external scorer of a metric with a heuristic fallback raises,
\* calculate returns a successful MetricResult with the heuristic score, and
\* its metadata.calculation_method differs from the one of every externally
\* scored result of the same metric and data.
C25_FallbackDistinguishable ==
    FallbackScored =>
        /\ metric_call.result[1].success
        /\ metric_call.result[1].score = HeuristicScore
        /\ \A external \in [kind : {"score"}, value : RawScores] :
              ScoreResult(metric_call.metric, metric_call.data, metric_call.config,
                          external)[1].metadata.calculation_method
                 # metric_call.result[1].metadata.calculation_method

\* A list of model statuses in configuration order holds at most one
\* In Progress, and a model has left Not Started only if its predecessor is
\* Completed or Failed.
OneAtATimeInOrder(models) ==
    /\ Cardinality({m \in DOMAIN models : models[m] = "In Progress"}) <= 1
    /\ \A m \in DOMAIN models :
          (m > 1 /\ models[m] # "Not Started") => models[m - 1] \in {"Completed", "Failed"}

\* C29: in the cache and in the status store, at most one model of a process
\* is In Progress, and model i+1 leaves Not Started only after model i is
\* Completed or Failed.
C29_ModelsInOrder ==
    \A p \in Pids :
        /\ OneAtATimeInOrder(CachedModels(p))
        /\ OneAtATimeInOrder(StoredModels(p))

\* The model with index m of process p is Completed in the cache or the store.
ShownCompleted(p, m) ==
    \/ m \in DOMAIN CachedModels(p) /\ CachedModels(p)[m] = "Completed"
    \/ m \in DOMAIN StoredModels(p) /\ StoredModels(p)[m] = "Completed"

\* C30, first half: a model is Completed, in the cache or in the store, only
\* when its results record is in the result store, and a model whose dataset
\* load or results write raised is never Completed.
C30_CompletedAfterResults ==
    \A p \in Pids : \A m \in 1..MaxModels :
        /\ ShownCompleted(p, m) => <<p, m>> \in results_collection
        /\ m \in task[p].evaluation_failed => ~ShownCompleted(p, m)

\* C30: the first half, and once the task has ended a model whose dataset
\* load or results write raised is Failed in the cache and in the store.
C30_FailedEndsFailed ==
    /\ C30_CompletedAfterResults
    /\ \A p \in Pids : \A m \in task[p].evaluation_failed :
          Quiescent(p) =>
             /\ CachedModels(p)[m] = "Failed"
             /\ StoredModels(p) # << >> => StoredModels(p)[m] = "Failed"

\* C24: over the create_metric calls of one factory: an entry of
\* _metrics_cache never changes or disappears and no two names share an
\* instance; a call that returns an instance returns the cached one (the one
\* cached before the call, when there was one); a call that raises leaves
\* the cache unchanged; and a call for a known name that is not cached calls
\* the constructor (again, after an earlier failure).
C24_RegistryCache ==
    /\ [](\A a, b \in DOMAIN engine.metrics_cache :
             engine.metrics_cache[a] = engine.metrics_cache[b] => a = b)
    /\ [][AtPair =>
            LET name == engine.metrics[engine.j]
                call == engine'.resolved[1]
            IN /\ call.name = name
               /\ \A n \in DOMAIN engine.metrics_cache :
                     /\ n \in DOMAIN engine'.metrics_cache
                     /\ engine'.metrics_cache[n] = engine.metrics_cache[n]
               /\ call.metric # << >> =>
                     /\ name \in DOMAIN engine'.metrics_cache
                     /\ engine'.metrics_cache[name] = call.metric[1]
               /\ call.metric = << >> => engine'.metrics_cache = engine.metrics_cache
               /\ (name \in FactoryMetrics /\ name \notin DOMAIN engine.metrics_cache) =>
                     engine'.constructions = engine.constructions + 1
               /\ name \in DOMAIN engine.metrics_cache =>
                     engine'.constructions = engine.constructions]_vars

\* C24 witness: one metric name resolved three times or more: the first
\* construction raised, the second succeeded and was cached, and a later
\* call returned the cached instance without a third construction.
C24_Witness ==
    /\ engine.metrics = <<"bias", "bias">>
    /\ engine.i = 2 /\ engine.j = 2
    /\ engine.constructions = 2
    /\ engine.metrics_cache = ("bias" :> 2)
    /\ engine.resolved = <<[name |-> "bias", metric |-> <<2>>]>>

\* Every create_metric call of the batch raised in the constructor: the
\* external scorer of every requested metric is unavailable.
ScorersUnavailable ==
    /\ engine.available
    /\ engine.evaluation_items # << >> /\ engine.metrics # << >>
    /\ RequestedMetrics \subseteq FactoryMetrics
    /\ engine.metrics_cache = << >>
    /\ engine.constructions = Len(engine.evaluation_items) * Len(engine.metrics)

\* C26: the response to a batch whose requested metrics all have an
\* unavailable external scorer has success = true, successful_count equal to
\* the number of items, and a summary_stats that flags the fallback.
C26_FallbackBatch ==
    (ScorersUnavailable /\ engine.response # << >> /\ engine.response[1].results # << >>) =>
        /\ engine.response[1].success
        /\ engine.response[1].successful_count = Len(engine.evaluation_items)
        /\ engine.response[1].summary_stats # << >>

\* C23: the client tags the i-th item of its request with item_id i
\* (zero-based), and a response of the engine with success set has one result
\* per request item, the i-th with item_id i and the question of the i-th
\* request item.
C23_ItemOrder ==
    /\ client_call.request # << >> =>
          \A k \in DOMAIN client_call.request[1].evaluation_items :
             client_call.request[1].evaluation_items[k].item_id = k - 1
    /\ (client_call.pc = "rpc" /\ engine.response # << >> /\ engine.response[1].success) =>
          /\ Len(engine.response[1].results) = Len(engine.evaluation_items)
          /\ \A k \in DOMAIN engine.response[1].results :
                /\ engine.response[1].results[k].item_id = k - 1
                /\ engine.response[1].results[k].question
                      = engine.evaluation_items[k].evaluation_data.question

\* The dict of a call made without the generated modules has been returned.
MockModeReturned == client_call.pc = "returned" /\ ~client_call.GRPC_AVAILABLE

\* C27: without the generated modules calculate_batch_metrics returns
\* success = true, one result per input item in input order with item_id the
\* item's zero-based index, a score for every requested metric in each result,
\* and total_processed equal to the number of items.
C27_MockMode ==
    MockModeReturned =>
        LET result == client_call.result[1]
        IN /\ result.success
           /\ Len(result.results) = Len(client_call.evaluation_data)
           /\ result.total_processed = Len(client_call.evaluation_data)
           /\ \A k \in DOMAIN result.results :
                 /\ result.results[k].item_id = k - 1
                 /\ result.results[k].question
                       = question_preview(client_call.evaluation_data[k].question)
                 /\ \A j \in DOMAIN client_call.metrics :
                       /\ client_call.metrics[j] \in DOMAIN result.results[k].metric_scores
                       /\ result.results[k].metric_scores[client_call.metrics[j]] \in 0..100

\* C27 witness: a mock-mode dict for two different items and two metric names.
C27_Witness ==
    /\ MockModeReturned
    /\ Len(client_call.evaluation_data) = 2
    /\ client_call.evaluation_data[1] # client_call.evaluation_data[2]
    /\ client_call.metrics = <<"bias", "unknown_metric">>
    /\ client_call.result[1].results[2].item_id = 1

\* The dict is the fallback for a call that failed.
AfterFailure(result) == IsFallback(result) /\ result.summary_stats.error # "None"

\* C28: two fallback dicts returned after a failed call for the same
\* evaluation items and metric names hold the same metric_scores for every
\* item.
C28_FallbackDeterministic ==
    (client_call.result # << >> /\ AfterFailure(client_call.result[1])) =>
        \A e \in DOMAIN client_call.earlier :
            AfterFailure(client_call.earlier[e]) =>
               \A k \in DOMAIN client_call.result[1].results :
                   client_call.result[1].results[k].metric_scores
                      = client_call.earlier[e].results[k].metric_scores

\* -------------------------------------------------- failed status writes

\* _update_model_status is running for model task[p].index of process p.
InUpdate(p) == task[p].pc \in {"ums_cache", "ums_get", "ums_write"}

\* A step of _update_model_status (a step of the task of p) leaves the status
\* of every other model as it is: in the cache, and in the status store, where
\* the document written back is the document read with one entry replaced.
OtherModelsKept ==
    \A p \in Pids :
        (InUpdate(p) /\ task'[p] # task[p]) =>
            /\ \A q \in DOMAIN task_statuses : \A m \in ModelIds(q) :
                   <<q, m>> # <<p, task[p].index>> =>
                       task_statuses'[q].models[m] = task_statuses[q].models[m]
            /\ \/ status_collection' = status_collection
               \/ /\ task[p].pc = "ums_write"
                  /\ \A q \in DOMAIN status_collection \ {p} :
                         /\ q \in DOMAIN status_collection'
                         /\ status_collection'[q] = status_collection[q]
                  /\ \A m \in ModelIds(p) \ {task[p].index} :
                         status_collection'[p].models[m]
                            = task[p].status_record[1].models[m]

\* The cache shows Failed only for a model whose dataset load or results write
\* raised: the status written before a failed store write is kept.
WrittenStatusKept ==
    \A p \in DOMAIN task_statuses : \A m \in ModelIds(p) :
        task_statuses[p].models[m] = "Failed" => m \in task[p].evaluation_failed

\* C31 (frame part, holds): the steps of one model's status update change no
\* other model's status in the cache or the status store.
C31_OtherModelsKept == [][OtherModelsKept]_vars

\* C31: a failed status-store write of one model's transition leaves the
\* in-memory status written for that transition in place (the model is not
\* rewritten to Failed because the store write raised), and changes no other
\* model's status in the cache or the store.
C31_StoreFailureContained == [](WrittenStatusKept) /\ [][OtherModelsKept]_vars

\* ------------------------------------------------- owner of a cache entry

\* The step creates, removes or changes the entry of p in task_statuses.
EntryChanged(p) ==
    \/ (p \in DOMAIN task_statuses) # (p \in DOMAIN task_statuses')
    \/ /\ p \in DOMAIN task_statuses
       /\ p \in DOMAIN task_statuses'
       /\ task_statuses'[p] # task_statuses[p]

\* C32: the entry of a process id in task_statuses is changed only by steps
\* of background_evaluation of that process id, never by a stop request, a
\* status query or the task of another process id.
C32_CacheOwnedByTask ==
    [][\A p \in Pids : EntryChanged(p) => task'[p] # task[p]]_vars

\* C32 (holds): except for the stop request that names the process id, only
\* background_evaluation of the process id changes its entry.
C32_TaskOrStop ==
    [][\A p \in Pids : EntryChanged(p) => (task'[p] # task[p] \/ stop'[p] # stop[p])]_vars

\* ------------------------------------------------ score of a failed pair

\* The pairs <<k, name>> of the results built so far whose metric failed: it
\* was not resolved or constructed, or calculate returned success = False
\* (validation failed, the scorer raised or timed out).
FailedPairs ==
    {pair \in (DOMAIN engine.results) \X RequestMetrics :
        /\ pair[2] \in DOMAIN engine.metric_results[pair[1]]
        /\ ~engine.metric_results[pair[1]][pair[2]]}

\* C33: the value recorded in metric_scores for a failed (item, metric) pair
\* is the same whichever way the pair failed.
C33_FailedSentinel ==
    \A a \in FailedPairs : \A b \in FailedPairs :
        engine.results[a[1]].metric_scores[a[2]]
           = engine.results[b[1]].metric_scores[b[2]]

\* ------------------------------------------ two start requests of one user

\* The processes of the user whose overall_status, cached or stored, is
\* In Progress.
InProgressOf(user_id) ==
    {q \in DOMAIN handler :
        /\ handler[q].user_id = user_id
        /\ \/ CachedOverall(q) = "In Progress"
           \/ StoredOverall(q) = "In Progress"}

\* C34: in every interleaving of the start requests of one user, no state has
\* two processes of the user with overall_status In Progress.
C34_OneInProgressPerUser ==
    \A user_id \in Users : Cardinality(InProgressOf(user_id)) <= 1

\* ------------------------------------------------------------ termination

\* C35 (termination, holds): every background_evaluation that was scheduled
\* returns or raises.
C35_Terminates == \A p \in Pids : (task[p].pc = "scheduled") ~> Ended(p)

\* After background_evaluation ended, the cache entry holds a terminal
\* overall_status and so does the status record, if there is one.
EndedTerminal ==
    \A p \in DOMAIN handler :
        Ended(p) =>
            /\ CachedOverall(p) \in Terminal
            /\ StoredOverall(p) \in Terminal \cup {"none"}

\* C35: when every awaited call returns or raises, every scheduled
\* background_evaluation ends, and once it has ended neither the cache entry
\* nor the status record of the process shows In Progress: both hold
\* Completed, Failed or Stopped.
C35_EndsTerminal == C35_Terminates /\ [](EndedTerminal)

\* ------------------------------------------------------ the status stream

\* The stream is open on the process id p.
StreamOn(p) == stream.pc # "closed" /\ stream.process_id = p

\* C36: a stream open on a process whose overall_status, cached or stored,
\* is Completed, Failed or Stopped ends: it does not keep polling forever.
C36_StreamEnds ==
    \A p \in Pids :
        (StreamOn(p) /\ (CachedOverall(p) \in Terminal \/ StoredOverall(p) \in Terminal))
            ~> (stream.pc = "ended")

\* ------------------------------------------------- catalog and registry

\* The create_metric call of this step raised ValueError("Unknown metric"):
\* nothing was returned and no constructor was called.
RaisedUnknown ==
    /\ engine'.resolved[1].metric = << >>
    /\ engine'.constructions = engine.constructions

\* C37 (one direction, holds): every name create_metric resolves is listed in
\* the catalog.
C37_ResolvedAreListed ==
    [][(engine.pc = "factory" /\ ~RaisedUnknown) =>
          engine'.resolved[1].name \in get_available_metrics]_vars

\* C37: create_metric resolves a name (it does not raise "Unknown metric")
\* exactly when get_available_metrics().all_metrics lists the name.
C37_CatalogMatchesRegistry ==
    [][engine.pc = "factory" =>
          (engine'.resolved[1].name \in get_available_metrics <=> ~RaisedUnknown)]_vars


====
